---- MODULE Spec2Model ----
(***************************************************************************)
(* Model of the ITS_LIVE datacube assembly of src/src/itscube.py (class    *)
(* ITSCube): granule search, duplicate resolution, spatial filtering,      *)
(* batched fetch and the incremental write of the Zarr store.              *)
(*                                                                         *)
(* Dates are day numbers; datetimes are milliseconds (day * MsPerDay).     *)
(* An optional value is None or Some(v).                                   *)
(***************************************************************************)
EXTENDS Integers, Sequences, FiniteSets, Bags, TLC

\* ------------------------------------------------------------------ bounds

\* Longest list of granule URLs handed to skip_duplicate_granules.
MaxUrls == 3

\* Milliseconds of one day: timedelta(days=...) against timedelta(milliseconds=...).
MsPerDay == 86400000

\* Python's None, and a value that is not None.
None == <<>>
Some(v) == <<v>>

\* No exception; self.layers when it is None; a direct call of a method.
NoError == "no error"
NoLayers == "None"
DirectCall == "direct call"

\* ------------------------------------------------------- granule file names

\* Acquisition days of image 1 and of image 2, processing days of image 1 and
\* of image 2 (disjoint, so that all processing dates of a list can differ),
\* and the last token of the file name (two file names may carry the same
\* four dates).
Acq1Days == {2, 3}
Acq2Days == {1}
Proc1Days == {4, 5}
Proc2Days == {6, 7}
Tags == {"P038", "P039"}

\* The tokens of a granule's base name split at '_', as in
\* LC08_L1TP_011002_20150821_20170405_01_T1_X_LC08_L1TP_011002_20150720_20170406_01_T1_G0240V01_P038.nc
MakeUrl(acq1, proc1, acq2, proc2, tag) ==
    <<"LC08", "L1TP", "011002", acq1, proc1, "01", "T1", "X",
      "LC08", "L1TP", "011002", acq2, proc2, "01", "T1", "G0240V01", tag>>

DedupUrls ==
    {MakeUrl(a1, p1, a2, p2, t) :
        a1 \in Acq1Days, p1 \in Proc1Days, a2 \in Acq2Days, p2 \in Proc2Days, t \in Tags}

\* All lists over S of length at most n.
SeqsUpTo(S, n) == UNION {[1..k -> S] : k \in 0..n}

\* ITSCube.get_dates_from_filename: url_tokens[3], [4], [11], [12] (0-based).
get_dates_from_filename(filename) ==
    [acq_1 |-> filename[4], proc_1 |-> filename[5],
     acq_2 |-> filename[12], proc_2 |-> filename[13]]

\* day_separation = (url_acq_1 - url_acq_2).days
\* mid_date = url_acq_2 + timedelta(days=day_separation/2, milliseconds=day_separation)
MutMidDateNoMilliseconds(url_acq_1, url_acq_2) ==
    LET day_separation == url_acq_1 - url_acq_2
    IN  url_acq_2 * MsPerDay + day_separation * (MsPerDay \div 2)
MidDate(url_acq_1, url_acq_2) ==
    LET day_separation == url_acq_1 - url_acq_2
    IN  url_acq_2 * MsPerDay + day_separation * (MsPerDay \div 2) + day_separation

UrlMidDate(url) ==
    LET d == get_dates_from_filename(url) IN MidDate(d.acq_1, d.acq_2)

\* list.index(x): the first position holding x.
IndexOf(seq, x) ==
    CHOOSE k \in 1..Len(seq) : seq[k] = x /\ \A j \in 1..(k - 1) : seq[j] # x

InSeq(seq, x) == \E k \in 1..Len(seq) : seq[k] = x

\* --------------------------------------------------- skip_duplicate_granules

\* "It is allowed for the same image pair only"
SameImagePair(url_d, found_d) ==
    ~(url_d.acq_1 # found_d.acq_1 \/ url_d.acq_2 # found_d.acq_2)

\* The replacement test: both processing dates greater or equal.
MutNewerStrict(url_d, found_d) ==
    url_d.proc_1 > found_d.proc_1 /\ url_d.proc_2 > found_d.proc_2
MutNewerEither(url_d, found_d) ==
    url_d.proc_1 >= found_d.proc_1 \/ url_d.proc_2 >= found_d.proc_2
IsNewer(url_d, found_d) ==
    url_d.proc_1 >= found_d.proc_1 /\ url_d.proc_2 >= found_d.proc_2

\* keep_urls[index] = each_url
MutReplaceAtEnd(keep, index, each_url) ==
    Append([k \in 1..(Len(keep) - 1) |-> IF k < index THEN keep[k] ELSE keep[k + 1]],
           each_url)
ReplaceKept(keep, index, each_url) == [keep EXCEPT ![index] = each_url]

\* One iteration of the loop over found_urls. st holds the locals
\* url_mid_dates and keep_urls, self.skipped_double_granules and whether the
\* RuntimeError was raised.
MutStepKeepBoth(st, each_url) ==
    [st EXCEPT !.url_mid_dates = Append(@, UrlMidDate(each_url)),
               !.keep_urls = Append(@, each_url)]
MutStepSkipNothing(st, each_url) ==
    LET mid_date == UrlMidDate(each_url)
    IN  IF InSeq(st.url_mid_dates, mid_date)
        THEN LET index == IndexOf(st.url_mid_dates, mid_date)
             IN  IF IsNewer(get_dates_from_filename(each_url),
                            get_dates_from_filename(st.keep_urls[index]))
                 THEN [st EXCEPT !.keep_urls = ReplaceKept(@, index, each_url)]
                 ELSE st
        ELSE [st EXCEPT !.url_mid_dates = Append(@, mid_date),
                        !.keep_urls = Append(@, each_url)]
MutStepKeepsLatest(st, each_url) ==
    LET url_d == get_dates_from_filename(each_url)
        mid_date == MidDate(url_d.acq_1, url_d.acq_2)
    IN  IF InSeq(st.url_mid_dates, mid_date)
        THEN LET index == IndexOf(st.url_mid_dates, mid_date)
                 found_url == st.keep_urls[index]
             IN  [st EXCEPT !.keep_urls = ReplaceKept(@, index, each_url),
                            !.skipped = Append(@, found_url)]
        ELSE [st EXCEPT !.url_mid_dates = Append(@, mid_date),
                        !.keep_urls = Append(@, each_url)]
DedupStep(st, each_url) ==
    LET url_d == get_dates_from_filename(each_url)
        mid_date == MidDate(url_d.acq_1, url_d.acq_2)
    IN  IF InSeq(st.url_mid_dates, mid_date)
        THEN LET index == IndexOf(st.url_mid_dates, mid_date)
                 found_url == st.keep_urls[index]
                 found_d == get_dates_from_filename(found_url)
             IN  IF ~SameImagePair(url_d, found_d)
                 THEN [st EXCEPT !.raised = TRUE]
                 ELSE IF IsNewer(url_d, found_d)
                      THEN [st EXCEPT
                              !.keep_urls = ReplaceKept(@, index, each_url),
                              !.skipped = Append(@, found_url)]
                      ELSE [st EXCEPT !.skipped = Append(@, each_url)]
        ELSE [st EXCEPT !.url_mid_dates = Append(@, mid_date),
                        !.keep_urls = Append(@, each_url)]

DedupStart == [url_mid_dates |-> <<>>, keep_urls |-> <<>>, skipped |-> <<>>,
               raised |-> FALSE]

\* skip_duplicate_granules as a function of its input list: the loop run to
\* its end, or to the iteration that raises.
RECURSIVE DedupFrom(_, _, _)
DedupFrom(st, lst, k) ==
    IF k > Len(lst) \/ st.raised THEN st
    ELSE DedupFrom(DedupStep(st, lst[k]), lst, k + 1)

SkipDuplicates(lst) == DedupFrom(DedupStart, lst, 1)

\* ------------------------------------------------------ decoded granules

\* self.projection of the cube of the runs, and the projections (EPSG codes)
\* granules come in.
TargetProjection == "32628"
Epsgs == {32628, 32627, 32626}

\* The polygon of the cube: (x, y) points in the target projection.
Polygon == <<<<1, 2>>, <<2, 2>>, <<2, 1>>, <<1, 1>>, <<1, 2>>>>

\* grid.Bounds of a list of values: its least and its greatest.
Bounds(vals) ==
    [min |-> CHOOSE m \in vals : \A v \in vals : m <= v,
     max |-> CHOOSE m \in vals : \A v \in vals : m >= v]

\* self.x and self.y of ITSCube.__init__.
self_x == Bounds({Polygon[k][1] : k \in 1..Len(Polygon)})
self_y == Bounds({Polygon[k][2] : k \in 1..Len(Polygon)})

\* The x and y coordinates of the grids granules come on: one that covers the
\* polygon in x, one that covers a part of it.
XGrids == {{1, 2}, {2, 3}}
YGrids == {{1}}
CenterDays == {1, 2}

\* img_pair_info.date_dt is a number of days with a fraction: it is counted
\* here in parts of a day, DtPerDay to the day.
DtPerDay == 2
DateDts == {2, 3}

\* int(ds.img_pair_info.date_dt)
IntDays(date_dt) == date_dt \div DtPerDay

\* A decoded granule: its projection, its centre date and date separation
\* (img_pair_info), its coordinates and the cells where v is not missing.
Datasets(centers, separations) ==
    UNION {[spatial_epsg : Epsgs, date_center : centers, date_dt : separations,
            x : {gx}, y : {gy}, v : SUBSET (gx \X gy)] :
           gx \in XGrids, gy \in YGrids}

DsUniverse == Datasets(CenterDays, DateDts)

\* ds.where(mask_lon & mask_lat, drop=True): the cells inside the bounds; the
\* coordinate labels with no cell inside are dropped.
Crop(ds) ==
    LET in_x == {cx \in ds.x : cx >= self_x.min /\ cx <= self_x.max}
        in_y == {cy \in ds.y : cy >= self_y.min /\ cy <= self_y.max}
        kept_x == IF in_y = {} THEN {} ELSE in_x
        kept_y == IF in_x = {} THEN {} ELSE in_y
    IN  [spatial_epsg |-> ds.spatial_epsg, x |-> kept_x, y |-> kept_y,
         v |-> ds.v \cap (kept_x \X kept_y)]

\* str(int(ds.UTM_Projection.spatial_epsg)) == self.projection
MutProjectionAny(ds, projection) == TRUE
InTargetProjection(ds, projection) == ToString(ds.spatial_epsg) = projection

\* np.any(mask_data.v.notnull())
HasData(ds, mask_data) == mask_data.v # {}

\* ITSCube.preprocess_dataset: (empty, projection, mid_date, url, mask_data).
MutPreprocessEmptyFirst(ds, ds_url, projection) ==
    IF ~HasData(ds, Crop(ds))
    THEN <<TRUE, ds.spatial_epsg, None, ds_url, None>>
    ELSE IF InTargetProjection(ds, projection)
         THEN <<FALSE, ds.spatial_epsg, Some(ds.date_center * MsPerDay + IntDays(ds.date_dt)),
                ds_url, Some(Crop(ds))>>
         ELSE <<FALSE, ds.spatial_epsg, None, ds_url, None>>
MutPreprocessNoUrl(ds, ds_url, projection) ==
    IF InTargetProjection(ds, projection)
    THEN LET mid_date == ds.date_center * MsPerDay + IntDays(ds.date_dt)
             mask_data == Crop(ds)
         IN  IF HasData(ds, mask_data)
             THEN <<FALSE, ds.spatial_epsg, Some(mid_date), None, Some(mask_data)>>
             ELSE <<TRUE, ds.spatial_epsg, None, None, None>>
    ELSE <<FALSE, ds.spatial_epsg, None, None, None>>
preprocess_dataset(ds, ds_url, projection) ==
    IF InTargetProjection(ds, projection)
    THEN LET mid_date == ds.date_center * MsPerDay + IntDays(ds.date_dt)
             mask_data == Crop(ds)
         IN  IF HasData(ds, mask_data)
             THEN <<FALSE, ds.spatial_epsg, Some(mid_date), ds_url, Some(mask_data)>>
             ELSE <<TRUE, ds.spatial_epsg, None, ds_url, None>>
    ELSE <<FALSE, ds.spatial_epsg, None, ds_url, None>>

\* ----------------------------------------------------------------- add_layer

\* self.skipped_proj_granules.setdefault(layer_projection, []).append(url)
SetDefaultAppend(dict, key, url) ==
    [k \in (DOMAIN dict) \cup {key} |->
        IF k = key
        THEN Append(IF key \in DOMAIN dict THEN dict[key] ELSE <<>>, url)
        ELSE dict[k]]

\* ITSCube.add_layer(is_empty, layer_projection, mid_date, url, data) on the
\* accumulator acc: its lists ds, dates and urls and the two skip registries.
MutAddLayerOneKey(acc, res) ==
    IF res[5] # None
    THEN [acc EXCEPT !.dates = Append(@, res[3][1]), !.ds = Append(@, res[5][1]),
                     !.urls = Append(@, res[4])]
    ELSE IF res[1]
         THEN [acc EXCEPT !.skipped_empty = Append(@, res[4])]
         ELSE [acc EXCEPT !.skipped_proj = SetDefaultAppend(@, 0, res[4])]
add_layer(acc, res) ==
    LET is_empty == res[1]
        layer_projection == res[2]
        mid_date == res[3]
        url == res[4]
        data == res[5]
    IN  IF data # None
        THEN [acc EXCEPT !.dates = Append(@, mid_date[1]),
                         !.ds = Append(@, data[1]),
                         !.urls = Append(@, url)]
        ELSE IF is_empty
             THEN [acc EXCEPT !.skipped_empty = Append(@, url)]
             ELSE [acc EXCEPT !.skipped_proj = SetDefaultAppend(@, layer_projection, url)]

\* ------------------------------------------------------------------- state

VARIABLES
    pc,                       \* where the run is
    err,                      \* the exception that ended the run, or None
    path,                     \* the create method of the run
    listing,                  \* what the search API (or the glob) returns
    num_granules,             \* argument of create and create_parallel
    projection,               \* self.projection
    store,                    \* the Zarr store at output_dir
    fetched,                  \* the granules read so far in the run
    found_urls,               \* the list handed to skip_duplicate_granules
    i,                        \* next position of found_urls in its loop
    url_mid_dates,            \* local of skip_duplicate_granules
    keep_urls,                \* local of skip_duplicate_granules; its return value
    skipped_double_granules,  \* self.skipped_double_granules
    num_urls_from_api,        \* self.num_urls_from_api
    ds_in,                    \* the decoded granule handed to preprocess_dataset
    target_existed,           \* os.path.exists(output_dir) at the head of the run
    results,                  \* the results of preprocess_dataset at hand
    idx,                      \* next granule (sequential) or next result (parallel)
    start,                    \* first granule of the batch
    num_to_process,           \* granules left
    num_tasks,                \* size of the batch
    is_first_write,
    ds,                       \* self.ds
    dates,                    \* self.dates
    urls,                     \* self.urls
    layers,                   \* self.layers
    skipped_proj_granules,    \* self.skipped_proj_granules
    skipped_empty_granules,   \* self.skipped_empty_granules
    stats,                    \* what format_stats has printed, or None
    func,                     \* the function of itslive_utils that was called
    total_retries,            \* its argument
    num_retries,              \* its local
    got_granules,             \* its local
    data,                     \* its local; its return value
    local_file,               \* the file at local_path: its content, or None
    calls,                    \* its calls of requests.get and of time.sleep
    all_zarr_datacubes,       \* self.all_zarr_datacubes of FixDatacubes
    num_dask_workers,         \* argument of FixDatacubes.__call__
    start_cube,               \* argument of FixDatacubes.__call__
    num_to_fix,               \* its local (start and num_tasks are its locals too)
    fixed,                    \* the groups of cubes it handed to FixDatacubes.all
    granules                  \* what skip_duplicate_granules of the catalog tool keeps

dedupVars == <<found_urls, i, url_mid_dates, keep_urls, skipped_double_granules,
               num_urls_from_api>>
envVars == <<path, listing, num_granules, projection>>
loopVars == <<results, idx, start, num_to_process, num_tasks, is_first_write>>
accVars == <<ds, dates, urls, layers, skipped_proj_granules, skipped_empty_granules>>

callVars == <<ds_in, target_existed>>

retryVars == <<func, total_retries, num_retries, got_granules, data, local_file, calls>>

fixVars == <<all_zarr_datacubes, num_dask_workers, start_cube, num_to_fix, fixed>>

toolVars == <<retryVars, fixVars, granules>>

vars == <<pc, err, envVars, toolVars, stats, store, fetched, dedupVars, callVars, loopVars,
          accVars>>

\* No function of itslive_utils has been called, no FixDatacubes object has
\* been made and skip_duplicate_granules of the catalog tool has not returned.
ToolsIdle ==
    /\ func = "none"
    /\ total_retries = 0
    /\ num_retries = 0
    /\ got_granules = FALSE
    /\ data = <<>>
    /\ local_file = None
    /\ calls = <<>>
    /\ all_zarr_datacubes = <<>>
    /\ num_dask_workers = 1
    /\ start_cube = 0
    /\ num_to_fix = 0
    /\ fixed = <<>>
    /\ granules = <<>>

\* A task whose result is not there yet.
Pending == <<>>

\* No store at output_dir.
NoStore == [exists |-> FALSE, slices |-> <<>>, x |-> {}, y |-> {}, writes |-> <<>>]

\* ITSCube.__init__: the object before any run.
InitObject ==
    /\ ds = <<>>
    /\ dates = <<>>
    /\ urls = <<>>
    /\ num_urls_from_api = None
    /\ skipped_proj_granules = <<>>
    /\ skipped_empty_granules = <<>>
    /\ skipped_double_granules = <<>>
    /\ layers = NoLayers

\* The locals of the methods before a run enters them.
InitLocals ==
    /\ err = NoError
    /\ stats = None
    /\ ToolsIdle
    /\ fetched = {}
    /\ i = 1
    /\ url_mid_dates = <<>>
    /\ results = <<>>
    /\ idx = 1
    /\ start = 0
    /\ num_to_process = 0
    /\ num_tasks = 0
    /\ is_first_write = TRUE

\* ------------------------------------------------- skip_duplicate_granules

\* Entry of skip_duplicate_granules(found_urls): lines 236-242.
DedupEnter(found) ==
    /\ found_urls' = found
    /\ num_urls_from_api' = Some(Len(found))
    /\ url_mid_dates' = <<>>
    /\ keep_urls' = <<>>
    /\ skipped_double_granules' = <<>>
    /\ i' = 1
    /\ pc' = "dedup"

\* One iteration of the loop of skip_duplicate_granules.
DedupIter ==
    /\ pc = "dedup"
    /\ i <= Len(found_urls)
    /\ LET st == DedupStep([url_mid_dates |-> url_mid_dates, keep_urls |-> keep_urls,
                            skipped |-> skipped_double_granules, raised |-> FALSE],
                           found_urls[i])
       IN  /\ url_mid_dates' = st.url_mid_dates
           /\ keep_urls' = st.keep_urls
           /\ skipped_double_granules' = st.skipped
           /\ pc' = IF st.raised THEN "error" ELSE "dedup"
           /\ err' = IF st.raised THEN "RuntimeError: duplicate granule" ELSE err
    /\ i' = i + 1
    /\ UNCHANGED <<found_urls, num_urls_from_api>>
    /\ UNCHANGED <<envVars, toolVars, stats, store, fetched, callVars, loopVars>>
    /\ UNCHANGED <<ds, dates, urls, layers, skipped_proj_granules, skipped_empty_granules>>

\* The loop is over: return keep_urls.
DedupReturn ==
    /\ pc = "dedup"
    /\ i > Len(found_urls)
    /\ pc' = "dedup_done"
    /\ UNCHANGED <<err, envVars, toolVars, stats, store, fetched, dedupVars, callVars, loopVars, accVars>>

\* skip_duplicate_granules called on every list of at most MaxUrls file names.
InitDedup ==
    /\ found_urls \in SeqsUpTo(DedupUrls, MaxUrls)
    /\ num_urls_from_api = Some(Len(found_urls))
    /\ url_mid_dates = <<>>
    /\ keep_urls = <<>>
    /\ skipped_double_granules = <<>>
    /\ i = 1
    /\ pc = "dedup"
    /\ err = NoError
    /\ stats = None
    /\ ToolsIdle
    /\ path = DirectCall
    /\ listing = <<>>
    /\ num_granules = None
    /\ projection = TargetProjection
    /\ store = NoStore
    /\ fetched = {}
    /\ ds_in = None
    /\ target_existed = FALSE
    /\ results = <<>>
    /\ idx = 1
    /\ start = 0
    /\ num_to_process = 0
    /\ num_tasks = 0
    /\ is_first_write = TRUE
    /\ ds = <<>>
    /\ dates = <<>>
    /\ urls = <<>>
    /\ layers = NoLayers
    /\ skipped_proj_granules = <<>>
    /\ skipped_empty_granules = <<>>

NextDedup == DedupIter \/ DedupReturn

SpecDedup == InitDedup /\ [][NextDedup]_vars

\* skip_duplicate_granules called on every pair of file names whose acquisition
\* dates are any two days of 0..MaxAcqDay, image 1 before, on or after image 2.
MaxAcqDay == 5

AcqUrls ==
    {MakeUrl(a1, 4, a2, 6, "P038") : a1 \in 0..MaxAcqDay, a2 \in 0..MaxAcqDay}

InitMidDate ==
    /\ found_urls \in SeqsUpTo(AcqUrls, 2)
    /\ num_urls_from_api = Some(Len(found_urls))
    /\ url_mid_dates = <<>>
    /\ keep_urls = <<>>
    /\ skipped_double_granules = <<>>
    /\ i = 1
    /\ pc = "dedup"
    /\ err = NoError
    /\ stats = None
    /\ ToolsIdle
    /\ path = DirectCall
    /\ listing = <<>>
    /\ num_granules = None
    /\ projection = TargetProjection
    /\ store = NoStore
    /\ fetched = {}
    /\ ds_in = None
    /\ target_existed = FALSE
    /\ results = <<>>
    /\ idx = 1
    /\ start = 0
    /\ num_to_process = 0
    /\ num_tasks = 0
    /\ is_first_write = TRUE
    /\ ds = <<>>
    /\ dates = <<>>
    /\ urls = <<>>
    /\ layers = NoLayers
    /\ skipped_proj_granules = <<>>
    /\ skipped_empty_granules = <<>>

SpecMidDate == InitMidDate /\ [][NextDedup]_vars

\* ------------------------------------------- read_dataset and add_layer

\* The accumulator of the object, as add_layer reads and writes it.
Accumulator ==
    [ds |-> ds, dates |-> dates, urls |-> urls,
     skipped_empty |-> skipped_empty_granules, skipped_proj |-> skipped_proj_granules]

SetAccumulator(acc) ==
    /\ ds' = acc.ds
    /\ dates' = acc.dates
    /\ urls' = acc.urls
    /\ skipped_empty_granules' = acc.skipped_empty
    /\ skipped_proj_granules' = acc.skipped_proj

\* read_dataset(url): preprocess_dataset of the decoded granule.
ReadDataset ==
    /\ pc = "read"
    /\ results' = <<preprocess_dataset(ds_in[1], keep_urls[idx], projection)>>
    /\ fetched' = fetched \cup {keep_urls[idx]}
    /\ pc' = "read_done"
    /\ UNCHANGED <<err, envVars, toolVars, stats, store, dedupVars, callVars, idx, start, num_to_process,
                   num_tasks, is_first_write, accVars>>

\* self.add_layer(*results)
AddResult ==
    /\ pc = "read_done"
    /\ SetAccumulator(add_layer(Accumulator, results[1]))
    /\ pc' = "added"
    /\ UNCHANGED <<err, envVars, toolVars, stats, store, fetched, dedupVars, callVars, loopVars, layers>>

\* The cubes the granules are read for: the target projection and another.
CubeProjections == {"32628", "32627"}

\* read_dataset and add_layer on every decoded granule, for a fresh object.
InitPreprocess ==
    /\ InitObject
    /\ InitLocals
    /\ found_urls \in {<<u>> : u \in DedupUrls}
    /\ keep_urls = found_urls
    /\ ds_in \in {Some(d) : d \in DsUniverse}
    /\ target_existed = FALSE
    /\ projection \in CubeProjections
    /\ pc = "read"
    /\ path = DirectCall
    /\ listing = <<>>
    /\ num_granules = None
    /\ store = NoStore

NextPreprocess == ReadDataset \/ AddResult

SpecPreprocess == InitPreprocess /\ [][NextPreprocess]_vars

\* ------------------------------------------------------------ the pipeline

\* Number of granules written to the store at a time (ITSCube.NUM_GRANULES_TO_WRITE,
\* set from the command line).
NUM_GRANULES_TO_WRITE == 2

Paths == {"create", "create_parallel", "create_from_local_no_api",
          "create_from_local_parallel_no_api"}
ApiPaths == {"create", "create_parallel"}
ParallelPaths == {"create_parallel", "create_from_local_parallel_no_api"}

\* The granules a search finds: an image pair processed twice, and two other
\* image pairs.
PipelineUrls ==
    {MakeUrl(2, 4, 1, 6, "P038"), MakeUrl(2, 5, 1, 7, "P038"),
     MakeUrl(3, 4, 1, 6, "P038"), MakeUrl(4, 4, 1, 6, "P038")}

\* The values of the argument num_granules.
NumGranulesChoices == {None, Some(2)}

\* The time of day the earlier image of a granule was acquired at, in parts of
\* a day: the file name has the days only. The later image is of midnight.
NoonUrls == {MakeUrl(4, 4, 1, 6, "P038")}
AcqTimes(url) == IF url \in NoonUrls THEN {0, 1} ELSE {0}

\* What a granule file may decode to: any projection, either grid, v missing
\* everywhere or nowhere; date_dt is the time between its two images and
\* date_center the day of the middle between them.
FetchDs(url) ==
    LET d == get_dates_from_filename(url)
    IN  UNION {LET date_dt == DtPerDay * (d.acq_1 - d.acq_2) - t
                   date_center == (DtPerDay * (d.acq_1 + d.acq_2) + t) \div (2 * DtPerDay)
               IN  {g \in Datasets({date_center}, {date_dt}) : g.v \in {{}, g.x \X g.y}} :
               t \in AcqTimes(url)}

\* A store left at output_dir by an earlier run.
OldStore ==
    [exists |-> TRUE,
     slices |-> <<[mid_date |-> 0, url |-> <<"old">>, spatial_epsg |-> 32628,
                   x |-> {1, 2}, y |-> {1}]>>,
     x |-> {1, 2}, y |-> {1},
     writes |-> <<[append_dim |-> FALSE, missing_value |-> TRUE, encoding |-> TRUE]>>]

\* The time-slices combine_layers makes of the accumulated layers.
Slices(acc) ==
    [k \in 1..Len(acc.ds) |->
        [mid_date |-> acc.dates[k], url |-> acc.urls[k],
         spatial_epsg |-> acc.ds[k].spatial_epsg, x |-> acc.ds[k].x, y |-> acc.ds[k].y]]

\* xr.concat joins the layers on the union of their coordinates.
ConcatX(acc) == UNION {acc.ds[k].x : k \in 1..Len(acc.ds)}
ConcatY(acc) == UNION {acc.ds[k].y : k \in 1..Len(acc.ds)}

\* combine_layers raised: the layers stay in the accumulator.
CombineRaised(acc, layers_then, error) ==
    /\ SetAccumulator(acc)
    /\ layers' = layers_then
    /\ store' = store
    /\ pc' = "error"
    /\ err' = error

\* combine_layers wrote new_store, and clear_vars.
MutCombineWroteKeeps(acc, new_store, ok_pc) ==
    /\ store' = new_store
    /\ SetAccumulator(acc)
    /\ layers' = "Dataset"
    /\ pc' = ok_pc
    /\ err' = err
MutCombineWroteClearsAll(acc, new_store, ok_pc) ==
    /\ store' = new_store
    /\ ds' = <<>>
    /\ dates' = <<>>
    /\ urls' = <<>>
    /\ layers' = NoLayers
    /\ skipped_empty_granules' = <<>>
    /\ skipped_proj_granules' = <<>>
    /\ pc' = ok_pc
    /\ err' = err
CombineWrote(acc, new_store, ok_pc) ==
    /\ store' = new_store
    /\ ds' = <<>>
    /\ dates' = <<>>
    /\ urls' = <<>>
    /\ layers' = NoLayers
    /\ skipped_empty_granules' = acc.skipped_empty
    /\ skipped_proj_granules' = acc.skipped_proj
    /\ pc' = ok_pc
    /\ err' = err

\* to_zarr raised after it had written: the layers stay in the accumulator.
CombineRaisedAfterWrite(acc, new_store, error) ==
    /\ SetAccumulator(acc)
    /\ layers' = "Dataset"
    /\ store' = new_store
    /\ pc' = "error"
    /\ err' = error

\* if is_first_write: ... attrs[DataVars.MISSING_VALUE_ATTR] = ...
MissingValueAttr(first_write) == first_write

\* if is_first_write: encoding_settings = {...: {DataVars.FILL_VALUE_ATTR: ...}}
MutEncodingAlways(first_write) == TRUE
FillValueEncoding(first_write) == first_write

\* if is_first_write: to_zarr(output_dir, encoding) else: to_zarr(output_dir,
\* append_dim = mid_date)
MutAppendDimAlways(first_write) == TRUE
AppendDim(first_write) == ~first_write

\* What a call of to_zarr by combine_layers hands to the store.
Write(first_write) ==
    [append_dim |-> AppendDim(first_write),
     missing_value |-> MissingValueAttr(first_write),
     encoding |-> FillValueEncoding(first_write)]

\* The store after to_zarr wrote the layers of acc.
StoreWritten(acc, first_write) ==
    [exists |-> TRUE,
     slices |-> store.slices \o Slices(acc),
     x |-> IF store.exists THEN store.x ELSE ConcatX(acc),
     y |-> IF store.exists THEN store.y ELSE ConcatY(acc),
     writes |-> Append(store.writes, Write(first_write))]

\* ITSCube.combine_layers(output_dir, is_first_write) on the accumulator acc,
\* followed by ok_pc, for layers that have every variable and attribute
\* combine_layers asks for. xr.concat raises for an empty list of layers.
\* to_zarr without append_dim creates the store and fails on an existing one.
\* What to_zarr with append_dim does when there is no store, or when the
\* layers have coordinates other than the store's, is not the repository's to
\* decide: it writes, it raises, or it raises after it has written.
to_zarr(acc, first_write, ok_pc) ==
    IF ~AppendDim(first_write)
    THEN IF store.exists
         THEN CombineRaised(acc, "Dataset", "ValueError: to_zarr")
         ELSE CombineWrote(acc, StoreWritten(acc, first_write), ok_pc)
    ELSE IF ~store.exists
         THEN \/ CombineWrote(acc, StoreWritten(acc, first_write), ok_pc)
              \/ CombineRaised(acc, "Dataset", "ValueError: to_zarr")
         ELSE \/ CombineWrote(acc, StoreWritten(acc, first_write), ok_pc)
              \/ /\ ConcatX(acc) # store.x \/ ConcatY(acc) # store.y
                 /\ CombineRaised(acc, "Dataset", "ValueError: to_zarr")
              \/ /\ ConcatX(acc) # store.x \/ ConcatY(acc) # store.y
                 /\ CombineRaisedAfterWrite(acc, StoreWritten(acc, first_write),
                                            "ValueError: to_zarr")
combine_layers(acc, first_write, ok_pc) ==
    IF acc.ds = <<>>
    THEN CombineRaised(acc, "{}", "ValueError: concat")
    ELSE to_zarr(acc, first_write, ok_pc)

\* if os.path.exists(output_dir): shutil.rmtree(output_dir)
MutRemoveKeeps(target) == target
RemoveTarget(target) == NoStore

\* ITSCube.clear
MutClearKeepsSkipped ==
    /\ ds' = <<>>
    /\ dates' = <<>>
    /\ urls' = <<>>
    /\ layers' = NoLayers
    /\ skipped_proj_granules' = skipped_proj_granules
    /\ skipped_empty_granules' = skipped_empty_granules
Clear ==
    /\ ds' = <<>>
    /\ dates' = <<>>
    /\ urls' = <<>>
    /\ layers' = NoLayers
    /\ skipped_proj_granules' = <<>>
    /\ skipped_empty_granules' = <<>>

\* The head of a create method of the API: rmtree of output_dir and clear().
CreateFromApi ==
    /\ pc = "start"
    /\ path \in ApiPaths
    /\ target_existed' = store.exists
    /\ store' = RemoveTarget(store)
    /\ Clear
    /\ num_urls_from_api' = None
    /\ skipped_double_granules' = <<>>
    /\ pc' = "request"
    /\ UNCHANGED <<err, envVars, toolVars, stats, fetched, found_urls, i, url_mid_dates, keep_urls,
                   ds_in, loopVars>>

\* The head of a create method on local files: rmtree of output_dir, clear(),
\* the glob and the entry of skip_duplicate_granules.
CreateFromLocal ==
    /\ pc = "start"
    /\ path \in Paths \ ApiPaths
    /\ target_existed' = store.exists
    /\ store' = RemoveTarget(store)
    /\ Clear
    /\ DedupEnter(listing)
    /\ UNCHANGED <<err, envVars, toolVars, stats, fetched, ds_in, loopVars>>

\* found_urls[:num_granules]
FirstGranules(found, n) ==
    IF n # None /\ n[1] # 0
    THEN SubSeq(found, 1, IF n[1] < Len(found) THEN n[1] ELSE Len(found))
    ELSE found

\* ITSCube.request_granules up to its call of skip_duplicate_granules.
MutRequestNoCheck ==
    /\ pc = "request"
    /\ DedupEnter(FirstGranules(listing, num_granules))
    /\ err' = err
    /\ UNCHANGED <<envVars, toolVars, stats, store, fetched, callVars, loopVars, accVars>>
RequestGranules ==
    /\ pc = "request"
    /\ IF Len(listing) = 0
       THEN /\ pc' = "error"
            /\ err' = "RuntimeError: no granules"
            /\ UNCHANGED dedupVars
       ELSE /\ DedupEnter(FirstGranules(listing, num_granules))
            /\ err' = err
    /\ UNCHANGED <<envVars, toolVars, stats, store, fetched, callVars, loopVars, accVars>>

\* After skip_duplicate_granules returned: the locals of the loop that follows.
LoopInit ==
    /\ pc = "dedup_done"
    /\ path \in Paths
    /\ is_first_write' = TRUE
    /\ IF path \in ParallelPaths
       THEN /\ start' = 0
            /\ num_to_process' = Len(keep_urls)
            /\ pc' = "batch_loop"
            /\ idx' = idx
       ELSE /\ idx' = 1
            /\ pc' = "seq_loop"
            /\ UNCHANGED <<start, num_to_process>>
    /\ UNCHANGED <<err, envVars, toolVars, stats, store, fetched, dedupVars, callVars, results, num_tasks,
                   accVars>>

\* One iteration of the loop of create and create_from_local_no_api: read the
\* granule, preprocess_dataset, add_layer, and combine_layers when the
\* accumulator holds NUM_GRANULES_TO_WRITE layers.
SeqIter ==
    /\ pc = "seq_loop"
    /\ idx <= Len(keep_urls)
    /\ \E d \in FetchDs(keep_urls[idx]) :
        LET res == preprocess_dataset(d, keep_urls[idx], projection)
            acc == add_layer(Accumulator, res)
        IN  /\ results' = <<res>>
            /\ IF Len(acc.urls) = NUM_GRANULES_TO_WRITE
               THEN /\ combine_layers(acc, is_first_write, "seq_loop")
                    /\ is_first_write' = IF pc' = "error" THEN is_first_write ELSE FALSE
               ELSE /\ SetAccumulator(acc)
                    /\ UNCHANGED <<pc, err, store, layers, is_first_write>>
    /\ fetched' = fetched \cup {keep_urls[idx]}
    /\ idx' = idx + 1
    /\ UNCHANGED <<envVars, toolVars, stats, dedupVars, callVars, start, num_to_process, num_tasks>>

\* After the loop: the layers that are left are written.
MutSeqFinishDropsRest ==
    /\ pc = "seq_loop"
    /\ idx > Len(keep_urls)
    /\ pc' = "stats"
    /\ UNCHANGED <<err, store, accVars>>
    /\ UNCHANGED <<envVars, toolVars, stats, fetched, dedupVars, callVars, loopVars>>
SeqFinish ==
    /\ pc = "seq_loop"
    /\ idx > Len(keep_urls)
    /\ IF Len(urls) # 0
       THEN combine_layers(Accumulator, is_first_write, "stats")
       ELSE /\ pc' = "stats"
            /\ UNCHANGED <<err, store, accVars>>
    /\ UNCHANGED <<envVars, toolVars, stats, fetched, dedupVars, callVars, loopVars>>

\* The head of an iteration of the loop of the parallel methods: the tasks of
\* the batch are handed to dask.compute.
MutBatchStartAll ==
    /\ pc = "batch_loop"
    /\ num_to_process > 0
    /\ num_tasks' = num_to_process
    /\ results' = [k \in 1..num_tasks' |-> Pending]
    /\ pc' = "compute"
    /\ UNCHANGED <<err, envVars, toolVars, stats, store, fetched, dedupVars, callVars, idx, start,
                   num_to_process, is_first_write, accVars>>
BatchStart ==
    /\ pc = "batch_loop"
    /\ num_to_process > 0
    /\ num_tasks' = IF num_to_process > NUM_GRANULES_TO_WRITE
                    THEN NUM_GRANULES_TO_WRITE ELSE num_to_process
    /\ results' = [k \in 1..num_tasks' |-> Pending]
    /\ pc' = "compute"
    /\ UNCHANGED <<err, envVars, toolVars, stats, store, fetched, dedupVars, callVars, idx, start,
                   num_to_process, is_first_write, accVars>>

\* A worker ends task k of the batch: read_s3_dataset or read_dataset.
MutTaskDoneFolds(k) ==
    /\ pc = "compute"
    /\ k \in 1..Len(results)
    /\ results[k] = Pending
    /\ \E d \in FetchDs(keep_urls[start + k]) :
        LET res == preprocess_dataset(d, keep_urls[start + k], projection)
        IN  /\ results' = [results EXCEPT ![k] = res]
            /\ SetAccumulator(add_layer(Accumulator, res))
    /\ fetched' = fetched \cup {keep_urls[start + k]}
    /\ UNCHANGED <<pc, err, envVars, toolVars, stats, store, dedupVars, callVars, idx, start, num_to_process,
                   num_tasks, is_first_write, layers>>
MutTaskDoneSkips(k) ==
    /\ pc = "compute"
    /\ k \in 1..Len(results)
    /\ results[k] = Pending
    /\ \E d \in FetchDs(keep_urls[start + k]) :
        LET res == preprocess_dataset(d, keep_urls[start + k], projection)
        IN  /\ results' = [results EXCEPT ![k] = res]
            /\ skipped_empty_granules' =
                  IF res[1] THEN Append(skipped_empty_granules, res[4])
                  ELSE skipped_empty_granules
    /\ fetched' = fetched \cup {keep_urls[start + k]}
    /\ UNCHANGED <<pc, err, envVars, toolVars, stats, store, dedupVars, callVars, idx, start, num_to_process,
                   num_tasks, is_first_write, ds, dates, urls, layers,
                   skipped_proj_granules>>
TaskDone(k) ==
    /\ pc = "compute"
    /\ k \in 1..Len(results)
    /\ results[k] = Pending
    /\ \E d \in FetchDs(keep_urls[start + k]) :
        results' = [results EXCEPT
                       ![k] = preprocess_dataset(d, keep_urls[start + k], projection)]
    /\ fetched' = fetched \cup {keep_urls[start + k]}
    /\ UNCHANGED <<pc, err, envVars, toolVars, stats, store, dedupVars, callVars, idx, start, num_to_process,
                   num_tasks, is_first_write, accVars>>

\* dask.compute returns the results of all tasks, in the order of the tasks.
ComputeReturn ==
    /\ pc = "compute"
    /\ \A k \in 1..Len(results) : results[k] # Pending
    /\ idx' = 1
    /\ pc' = "add_layers"
    /\ UNCHANGED <<err, envVars, toolVars, stats, store, fetched, dedupVars, callVars, results, start,
                   num_to_process, num_tasks, is_first_write, accVars>>

\* for each_ds in results[0]: self.add_layer(*each_ds)
MutAddLayerStepReversed ==
    /\ pc = "add_layers"
    /\ idx <= Len(results)
    /\ SetAccumulator(add_layer(Accumulator, results[Len(results) - idx + 1]))
    /\ idx' = idx + 1
    /\ UNCHANGED <<pc, err, envVars, toolVars, stats, store, fetched, dedupVars, callVars, results, start,
                   num_to_process, num_tasks, is_first_write, layers>>
AddLayerStep ==
    /\ pc = "add_layers"
    /\ idx <= Len(results)
    /\ SetAccumulator(add_layer(Accumulator, results[idx]))
    /\ idx' = idx + 1
    /\ UNCHANGED <<pc, err, envVars, toolVars, stats, store, fetched, dedupVars, callVars, results, start,
                   num_to_process, num_tasks, is_first_write, layers>>

\* The rest of the iteration: combine_layers and the counters of the loop.
MutCombineBatchStays ==
    /\ pc = "add_layers"
    /\ idx > Len(results)
    /\ combine_layers(Accumulator, is_first_write, "batch_loop")
    /\ IF pc' = "error"
       THEN UNCHANGED <<results, start, num_to_process, is_first_write>>
       ELSE /\ results' = <<>>
            /\ is_first_write' = IF start = 0 THEN FALSE ELSE is_first_write
            /\ num_to_process' = num_to_process - num_tasks
            /\ start' = start
    /\ UNCHANGED <<envVars, toolVars, stats, fetched, dedupVars, callVars, idx, num_tasks>>
CombineBatch ==
    /\ pc = "add_layers"
    /\ idx > Len(results)
    /\ combine_layers(Accumulator, is_first_write, "batch_loop")
    /\ IF pc' = "error"
       THEN UNCHANGED <<results, start, num_to_process, is_first_write>>
       ELSE /\ results' = <<>>
            /\ is_first_write' = IF start = 0 THEN FALSE ELSE is_first_write
            /\ num_to_process' = num_to_process - num_tasks
            /\ start' = start + num_tasks
    /\ UNCHANGED <<envVars, toolVars, stats, fetched, dedupVars, callVars, idx, num_tasks>>

\* while num_to_process > 0 is over.
BatchExit ==
    /\ pc = "batch_loop"
    /\ ~(num_to_process > 0)
    /\ pc' = "stats"
    /\ UNCHANGED <<err, envVars, toolVars, stats, store, fetched, dedupVars, callVars, loopVars, accVars>>

\* Reading a granule raises (s3.open, xr.open_dataset): the run ends.
MutFetchFailGoesOn ==
    /\ \/ pc = "seq_loop" /\ idx <= Len(keep_urls)
       \/ pc = "compute" /\ \E k \in 1..Len(results) : results[k] = Pending
    /\ err # "fetch error"
    /\ pc' = pc
    /\ err' = "fetch error"
    /\ UNCHANGED <<envVars, toolVars, stats, store, fetched, dedupVars, callVars, loopVars, accVars>>
FetchFail ==
    /\ \/ pc = "seq_loop" /\ idx <= Len(keep_urls)
       \/ pc = "compute" /\ \E k \in 1..Len(results) : results[k] = Pending
    /\ pc' = "error"
    /\ err' = "fetch error"
    /\ UNCHANGED <<envVars, toolVars, stats, store, fetched, dedupVars, callVars, loopVars, accVars>>

\* sum([len(each) for each in self.skipped_proj_granules.values()])
RECURSIVE SumLens(_, _)
SumLens(dict, keys) ==
    IF keys = {} THEN 0
    ELSE LET key == CHOOSE key \in keys : TRUE
         IN  Len(dict[key]) + SumLens(dict, keys \ {key})

\* sorted(self.skipped_proj_granules.keys())
RECURSIVE Sorted(_)
Sorted(keys) ==
    IF keys = {} THEN <<>>
    ELSE LET least == CHOOSE least \in keys : \A key \in keys : least <= key
         IN  <<least>> \o Sorted(keys \ {least})

\* 100.0 * count / num_urls, as the fraction of two integers.
Percent(count, num_urls) == <<100 * count, num_urls>>

\* The lines ITSCube.format_stats prints: a count and a percentage each, and
\* the projections of the granules skipped for their projection, if any.
format_stats ==
    LET num_urls == num_urls_from_api[1]
        sum_projs == SumLens(skipped_proj_granules, DOMAIN skipped_proj_granules)
    IN  [empty |-> <<Len(skipped_empty_granules),
                     Percent(Len(skipped_empty_granules), num_urls)>>,
         wrong_projection |-> <<sum_projs, Percent(sum_projs, num_urls)>>,
         double |-> <<Len(skipped_double_granules),
                      Percent(Len(skipped_double_granules), num_urls)>>,
         wrong_projections |-> IF DOMAIN skipped_proj_granules # {}
                               THEN Some(Sorted(DOMAIN skipped_proj_granules))
                               ELSE None]

\* The call of ITSCube.format_stats that ends a create method: the division by
\* self.num_urls_from_api raises when it is 0.
FormatStats ==
    /\ pc = "stats"
    /\ IF num_urls_from_api = Some(0)
       THEN pc' = "error" /\ err' = "ZeroDivisionError" /\ stats' = stats
       ELSE pc' = "done" /\ err' = err /\ stats' = Some(format_stats)
    /\ UNCHANGED <<envVars, toolVars, store, fetched, dedupVars, callVars, loopVars, accVars>>

\* The program is run again with the same arguments after a run was aborted:
\* a new object, and at output_dir what the aborted run left there.
Reinvoke ==
    /\ pc = "error"
    /\ pc' = "start"
    /\ err' = NoError
    /\ fetched' = {}
    /\ found_urls' = <<>>
    /\ i' = 1
    /\ url_mid_dates' = <<>>
    /\ keep_urls' = <<>>
    /\ skipped_double_granules' = <<>>
    /\ num_urls_from_api' = None
    /\ target_existed' = FALSE
    /\ results' = <<>>
    /\ idx' = 1
    /\ start' = 0
    /\ num_to_process' = 0
    /\ num_tasks' = 0
    /\ is_first_write' = TRUE
    /\ Clear
    /\ stats' = None
    /\ UNCHANGED <<envVars, toolVars, store, ds_in>>

\* A fresh object, one call of one of the create methods. The search API may
\* list a granule twice, the glob of a directory does not.
Init ==
    /\ InitObject
    /\ InitLocals
    /\ found_urls = <<>>
    /\ keep_urls = <<>>
    /\ ds_in = None
    /\ target_existed = FALSE
    /\ pc = "start"
    /\ path \in Paths
    /\ listing \in SeqsUpTo(PipelineUrls, MaxUrls)
    /\ path \notin ApiPaths =>
          \A a, b \in 1..Len(listing) : a # b => listing[a] # listing[b]
    /\ num_granules \in IF path \in ApiPaths THEN NumGranulesChoices ELSE {None}
    /\ projection = TargetProjection
    /\ store \in {NoStore, OldStore}

Next ==
    \/ CreateFromApi
    \/ CreateFromLocal
    \/ RequestGranules
    \/ DedupIter
    \/ DedupReturn
    \/ LoopInit
    \/ SeqIter
    \/ SeqFinish
    \/ BatchStart
    \/ \E k \in 1..NUM_GRANULES_TO_WRITE : TaskDone(k)
    \/ ComputeReturn
    \/ AddLayerStep
    \/ CombineBatch
    \/ BatchExit
    \/ FetchFail
    \/ FormatStats
    \/ Reinvoke

Spec == Init /\ [][Next]_vars

\* The steps of a run that the program takes when it is scheduled: all but the
\* failure of a fetch and the start of another run.
RunProgress ==
    \/ CreateFromApi
    \/ CreateFromLocal
    \/ RequestGranules
    \/ DedupIter
    \/ DedupReturn
    \/ LoopInit
    \/ SeqIter
    \/ SeqFinish
    \/ BatchStart
    \/ \E k \in 1..NUM_GRANULES_TO_WRITE : TaskDone(k)
    \/ ComputeReturn
    \/ AddLayerStep
    \/ CombineBatch
    \/ BatchExit
    \/ FormatStats

\* The runs in which the main thread and every worker that can take a step
\* eventually takes one.
SpecLive == Init /\ [][Next]_vars /\ WF_vars(RunProgress)

\* ------------------------------------------------ a second run of an object

\* The granules of the run the object has completed before.
EarlierUrls ==
    [empty |-> MakeUrl(5, 4, 1, 6, "P038"), proj |-> MakeUrl(6, 4, 1, 6, "P038"),
     double |-> MakeUrl(7, 4, 1, 6, "P038")]

\* An object that has completed a run, in which it skipped a granule of each
\* kind, and a call of one of its create methods.
InitRerun ==
    /\ InitLocals
    /\ ds = <<>>
    /\ dates = <<>>
    /\ urls = <<>>
    /\ layers = NoLayers
    /\ num_urls_from_api = Some(MaxUrls)
    /\ skipped_proj_granules = [key \in {32627} |-> <<EarlierUrls.proj>>]
    /\ skipped_empty_granules = <<EarlierUrls.empty>>
    /\ skipped_double_granules = <<EarlierUrls.double>>
    /\ found_urls = <<>>
    /\ keep_urls = <<>>
    /\ ds_in = None
    /\ target_existed = FALSE
    /\ pc = "start"
    /\ path \in Paths
    /\ listing \in SeqsUpTo(PipelineUrls, MaxUrls)
    /\ path \notin ApiPaths =>
          \A a, b \in 1..Len(listing) : a # b => listing[a] # listing[b]
    /\ num_granules \in IF path \in ApiPaths THEN NumGranulesChoices ELSE {None}
    /\ projection = TargetProjection
    /\ store \in {NoStore, OldStore}

SpecRerun == InitRerun /\ [][Next]_vars

\* ------------------------------------------ combine_layers, step by step

\* The data variables of a granule.
GranuleVars ==
    {"v", "vx", "vy", "chip_size_height", "chip_size_width", "interp_mask", "v_error"}

\* DataVars.MISSING_BYTE, DataVars.MISSING_VALUE and the local
\* missing_stable_shift_value; the value of an attribute a granule has.
MISSING_BYTE == 0
MISSING_VALUE == -32767
missing_stable_shift_value == 0
AttrValue == 1

\* ITSCube.get_data_var_attr(ds, var_name, attr_name, missing_value) on the
\* layer d: the attribute, the default, or the RuntimeError.
MutGetAttrFalsyDefault(d, var_name, attr_name, missing_value) ==
    IF var_name \in d.vars /\ attr_name \in DOMAIN d.attrs[var_name]
    THEN [raised |-> FALSE, value |-> d.attrs[var_name][attr_name][1]]
    ELSE IF missing_value = None \/ missing_value = Some(0)
         THEN [raised |-> TRUE, value |-> 0]
         ELSE [raised |-> FALSE, value |-> missing_value[1]]
get_data_var_attr(d, var_name, attr_name, missing_value) ==
    IF var_name \in d.vars /\ attr_name \in DOMAIN d.attrs[var_name]
    THEN [raised |-> FALSE, value |-> d.attrs[var_name][attr_name][1]]
    ELSE IF missing_value = None
         THEN [raised |-> TRUE, value |-> 0]
         ELSE [raised |-> FALSE, value |-> missing_value[1]]

\* A statement of combine_layers: what it does, the variable and the attribute
\* of the layers it reads, its default, and the variable of the cube it makes.
Stmt(op, var, attr, missing_value, out) ==
    [op |-> op, var |-> var, attr |-> attr, missing_value |-> missing_value, out |-> out]

\* The statements of combine_layers on self.ds and self.layers, in the order
\* of the source.
MutProgramKeepsVx ==
    <<Stmt("reset", "", "", None, ""),
      Stmt("concat", "v", "", None, "v"),
      Stmt("item", "v", "grid_mapping", None, "grid_mapping"),
      Stmt("attr", "v", "map_scale_corrected", Some(MISSING_BYTE), "map_scale_corrected"),
      Stmt("drop", "v", "", None, ""),
      Stmt("concat", "vx", "", None, "vx"),
      Stmt("attr", "vx", "vx_error", Some(MISSING_VALUE), "vx_error"),
      Stmt("attr", "vx", "stable_rmse", Some(MISSING_VALUE), "stable_rmse"),
      Stmt("attr", "vx", "stable_count", None, "stable_count"),
      Stmt("attr", "vx", "flag_stable_shift", Some(missing_stable_shift_value),
           "flag_stable_shift"),
      Stmt("attr", "vx", "stable_shift", None, "vx_stable_shift"),
      Stmt("concat", "vy", "", None, "vy"),
      Stmt("attr", "vy", "vy_error", Some(MISSING_VALUE), "vy_error"),
      Stmt("attr", "vy", "stable_shift", None, "vy_stable_shift"),
      Stmt("drop", "vy", "", None, ""),
      Stmt("concat", "chip_size_height", "", None, "chip_size_height"),
      Stmt("drop", "chip_size_height", "", None, ""),
      Stmt("concat", "chip_size_width", "", None, "chip_size_width"),
      Stmt("drop", "chip_size_width", "", None, ""),
      Stmt("concat", "interp_mask", "", None, "interp_mask"),
      Stmt("drop", "interp_mask", "", None, ""),
      Stmt("get_data_var", "v_error", "", None, "v_error"),
      Stmt("to_zarr", "", "", None, "")>>
CombineProgram ==
    <<Stmt("reset", "", "", None, ""),
      Stmt("concat", "v", "", None, "v"),
      Stmt("item", "v", "grid_mapping", None, "grid_mapping"),
      Stmt("attr", "v", "map_scale_corrected", Some(MISSING_BYTE), "map_scale_corrected"),
      Stmt("drop", "v", "", None, ""),
      Stmt("concat", "vx", "", None, "vx"),
      Stmt("attr", "vx", "vx_error", Some(MISSING_VALUE), "vx_error"),
      Stmt("attr", "vx", "stable_rmse", Some(MISSING_VALUE), "stable_rmse"),
      Stmt("attr", "vx", "stable_count", None, "stable_count"),
      Stmt("attr", "vx", "flag_stable_shift", Some(missing_stable_shift_value),
           "flag_stable_shift"),
      Stmt("attr", "vx", "stable_shift", None, "vx_stable_shift"),
      Stmt("drop", "vx", "", None, ""),
      Stmt("concat", "vy", "", None, "vy"),
      Stmt("attr", "vy", "vy_error", Some(MISSING_VALUE), "vy_error"),
      Stmt("attr", "vy", "stable_shift", None, "vy_stable_shift"),
      Stmt("drop", "vy", "", None, ""),
      Stmt("concat", "chip_size_height", "", None, "chip_size_height"),
      Stmt("drop", "chip_size_height", "", None, ""),
      Stmt("concat", "chip_size_width", "", None, "chip_size_width"),
      Stmt("drop", "chip_size_width", "", None, ""),
      Stmt("concat", "interp_mask", "", None, "interp_mask"),
      Stmt("drop", "interp_mask", "", None, ""),
      Stmt("get_data_var", "v_error", "", None, "v_error"),
      Stmt("to_zarr", "", "", None, "")>>

\* The statement combine_layers is at.
AtStmt(op) ==
    /\ pc = "combine"
    /\ idx <= Len(CombineProgram)
    /\ CombineProgram[idx].op = op
ThisStmt == CombineProgram[idx]

\* self.layers[name] = value
SetItem(cube, name, value) ==
    [n \in (DOMAIN cube) \cup {name} |-> IF n = name THEN value ELSE cube[n]]

\* A statement of combine_layers raised: what it did to self.ds stays.
StmtRaised(error) ==
    /\ pc' = "error"
    /\ err' = error
    /\ UNCHANGED <<layers, idx>>

\* The variables combine_layers leaves alone up to its call of to_zarr.
StmtUnchanged ==
    UNCHANGED <<envVars, toolVars, stats, store, fetched, dedupVars, callVars, results, start, num_to_process,
                num_tasks, is_first_write, dates, urls, skipped_proj_granules,
                skipped_empty_granules>>

\* self.layers = {}
CombineReset ==
    /\ AtStmt("reset")
    /\ layers' = <<>>
    /\ idx' = idx + 1
    /\ UNCHANGED <<pc, err, ds>>
    /\ StmtUnchanged

\* self.layers[var] = xr.concat([ds.var for ds in self.ds], mid_date_coord);
\* with v, self.layers is made a Dataset of the urls first.
CombineConcat ==
    /\ AtStmt("concat")
    /\ IF ds = <<>>
       THEN StmtRaised("ValueError: concat")
       ELSE IF \E k \in 1..Len(ds) : ThisStmt.var \notin ds[k].vars
            THEN StmtRaised("AttributeError")
            ELSE /\ layers' = SetItem(IF ThisStmt.var = "v"
                                      THEN SetItem(layers, "url", urls) ELSE layers,
                                      ThisStmt.out, [k \in 1..Len(ds) |-> AttrValue])
                 /\ idx' = idx + 1
                 /\ UNCHANGED <<pc, err>>
    /\ UNCHANGED ds
    /\ StmtUnchanged

\* data = [ds.v.attrs[DataVars.GRID_MAPPING] for ds in self.ds]
CombineItem ==
    /\ AtStmt("item")
    /\ IF \E k \in 1..Len(ds) : ThisStmt.attr \notin DOMAIN ds[k].attrs[ThisStmt.var]
       THEN StmtRaised("KeyError")
       ELSE /\ layers' = SetItem(layers, ThisStmt.out,
                                 [k \in 1..Len(ds) |-> ds[k].attrs[ThisStmt.var][ThisStmt.attr]])
            /\ idx' = idx + 1
            /\ UNCHANGED <<pc, err>>
    /\ UNCHANGED ds
    /\ StmtUnchanged

\* data = [self.get_data_var_attr(ds, var, attr, missing_value) for ds in self.ds]
CombineAttr ==
    /\ AtStmt("attr")
    /\ LET got == [k \in 1..Len(ds) |->
                      get_data_var_attr(ds[k], ThisStmt.var, ThisStmt.attr,
                                        ThisStmt.missing_value)]
       IN  IF \E k \in 1..Len(ds) : got[k].raised
           THEN StmtRaised("RuntimeError: attribute")
           ELSE /\ layers' = SetItem(layers, ThisStmt.out,
                                     [k \in 1..Len(ds) |-> got[k].value])
                /\ idx' = idx + 1
                /\ UNCHANGED <<pc, err>>
    /\ UNCHANGED ds
    /\ StmtUnchanged

\* self.ds = [ds.drop_vars(var) for ds in self.ds]
CombineDrop ==
    /\ AtStmt("drop")
    /\ IF \E k \in 1..Len(ds) : ThisStmt.var \notin ds[k].vars
       THEN /\ StmtRaised("ValueError: drop_vars")
            /\ UNCHANGED ds
       ELSE /\ ds' = [k \in 1..Len(ds) |-> [ds[k] EXCEPT !.vars = @ \ {ThisStmt.var}]]
            /\ idx' = idx + 1
            /\ UNCHANGED <<pc, err, layers>>
    /\ StmtUnchanged

\* xr.concat([self.get_data_var(ds, var) for ds in self.ds], mid_date_coord):
\* an empty array stands for the variable a layer does not have.
CombineGetDataVar ==
    /\ AtStmt("get_data_var")
    /\ layers' = SetItem(layers, ThisStmt.out,
                         [k \in 1..Len(ds) |->
                             IF ThisStmt.var \in ds[k].vars THEN AttrValue ELSE 0])
    /\ idx' = idx + 1
    /\ UNCHANGED <<pc, err, ds>>
    /\ StmtUnchanged

\* self.layers.to_zarr(...) and clear_vars.
CombineToZarr ==
    /\ AtStmt("to_zarr")
    /\ to_zarr(Accumulator, is_first_write, "combined")
    /\ UNCHANGED <<envVars, toolVars, stats, fetched, dedupVars, callVars, loopVars>>

\* The attributes of the variables of a layer: every one of them, those of the
\* optical legacy format, and every one but one that combine_layers asks for.
Attrs(names) == [n \in names |-> <<AttrValue>>]
FullAttrs ==
    [v |-> Attrs({"grid_mapping", "map_scale_corrected"}),
     vx |-> Attrs({"vx_error", "stable_rmse", "stable_count", "flag_stable_shift",
                   "stable_shift"}),
     vy |-> Attrs({"vy_error", "stable_shift"})]
LayerAttrs ==
    {FullAttrs,
     [v |-> Attrs({"grid_mapping"}),
      vx |-> Attrs({"stable_rmse", "stable_count", "stable_shift"}),
      vy |-> Attrs({"stable_shift"})],
     [FullAttrs EXCEPT !.vx = Attrs({"vx_error", "stable_rmse", "flag_stable_shift",
                                     "stable_shift"})],
     [FullAttrs EXCEPT !.vx = Attrs({"vx_error", "stable_rmse", "stable_count",
                                     "flag_stable_shift"})],
     [FullAttrs EXCEPT !.vy = Attrs({"vy_error"})]}

\* The layers add_layer may have appended to self.ds: on the grid of the cube,
\* with or without the variable v_error.
Layers ==
    [spatial_epsg : {32628}, x : {{1, 2}}, y : {{1}},
     vars : {GranuleVars, GranuleVars \ {"v_error"}}, attrs : LayerAttrs]

\* combine_layers is called: on an empty accumulator or on one of up to
\* NUM_GRANULES_TO_WRITE layers, for the first write or for a later one.
InitCombine ==
    /\ err = NoError
    /\ stats = None
    /\ ToolsIdle
    /\ fetched = {}
    /\ i = 1
    /\ url_mid_dates = <<>>
    /\ results = <<>>
    /\ idx = 1
    /\ start = 0
    /\ num_to_process = 0
    /\ num_tasks = 0
    /\ pc = "combine"
    /\ ds \in SeqsUpTo(Layers, NUM_GRANULES_TO_WRITE)
    /\ dates = [k \in 1..Len(ds) |-> k]
    /\ urls = [k \in 1..Len(ds) |-> MakeUrl(k + 1, 4, 1, 6, "P038")]
    /\ layers = NoLayers
    /\ num_urls_from_api = Some(NUM_GRANULES_TO_WRITE)
    /\ skipped_proj_granules = <<>>
    /\ skipped_empty_granules = <<>>
    /\ skipped_double_granules = <<>>
    /\ found_urls = <<>>
    /\ keep_urls = <<>>
    /\ ds_in = None
    /\ target_existed = FALSE
    /\ path = DirectCall
    /\ listing = <<>>
    /\ num_granules = None
    /\ projection = TargetProjection
    /\ store \in {NoStore, OldStore}
    /\ is_first_write = ~store.exists

NextCombine ==
    \/ CombineReset
    \/ CombineConcat
    \/ CombineItem
    \/ CombineAttr
    \/ CombineDrop
    \/ CombineGetDataVar
    \/ CombineToZarr

SpecCombine == InitCombine /\ [][NextCombine]_vars

\* ------------------------------------ the loops as functions of the results

\* What to_zarr with append_dim does on layers whose coordinates are not the
\* store's, or without a store: the library's choice.
ToZarrChoices == {"writes", "raises", "raises after writing"}

\* The lists without repetition over S of length at most n.
ListsOf(S, n) ==
    {lst \in SeqsUpTo(S, n) : \A a, b \in 1..Len(lst) : a # b => lst[a] # lst[b]}

\* What the loops of the create methods work on: the store, the accumulator
\* of the object, the local is_first_write and the exception that left.
LoopStart ==
    [store |-> NoStore,
     acc |-> [ds |-> <<>>, dates |-> <<>>, urls |-> <<>>,
              skipped_empty |-> <<>>, skipped_proj |-> <<>>],
     is_first_write |-> TRUE,
     err |-> NoError]

\* combine_layers(output_dir, is_first_write) on the loop state st, when the
\* library does m.
CombineLayersOn(st, m) ==
    LET acc == st.acc
        wrote == [st EXCEPT
                    !.store = [exists |-> TRUE,
                               slices |-> st.store.slices \o Slices(acc),
                               x |-> IF st.store.exists THEN st.store.x ELSE ConcatX(acc),
                               y |-> IF st.store.exists THEN st.store.y ELSE ConcatY(acc),
                               writes |-> Append(st.store.writes, Write(st.is_first_write))]]
        cleared == [wrote EXCEPT !.acc.ds = <<>>, !.acc.dates = <<>>, !.acc.urls = <<>>]
        raised == [st EXCEPT !.err = "ValueError: to_zarr"]
        chosen == IF m = "writes" THEN cleared
                  ELSE IF m = "raises" THEN raised
                  ELSE [wrote EXCEPT !.err = "ValueError: to_zarr"]
    IN  IF acc.ds = <<>> THEN [st EXCEPT !.err = "ValueError: concat"]
        ELSE IF ~AppendDim(st.is_first_write)
             THEN IF st.store.exists THEN raised ELSE cleared
             ELSE IF ~st.store.exists
                  THEN IF m = "writes" THEN cleared ELSE raised
                  ELSE IF ConcatX(acc) # st.store.x \/ ConcatY(acc) # st.store.y
                       THEN chosen
                       ELSE cleared

\* The loop of create and of create_from_local_no_api over the results of
\* preprocess_dataset for the granules k, k + 1, ... of the list, and the
\* write of the layers left over.
RECURSIVE SequentialLoop(_, _, _, _)
SequentialLoop(st, cands, k, m) ==
    IF st.err # NoError THEN st
    ELSE IF k > Len(cands)
         THEN IF Len(st.acc.urls) # 0 THEN CombineLayersOn(st, m) ELSE st
         ELSE LET added == [st EXCEPT !.acc = add_layer(@, cands[k])]
              IN  SequentialLoop(
                      IF Len(added.acc.urls) = NUM_GRANULES_TO_WRITE
                      THEN [CombineLayersOn(added, m) EXCEPT !.is_first_write = FALSE]
                      ELSE added,
                      cands, k + 1, m)

\* for each_ds in results[0]: self.add_layer(*each_ds), on the results
\* from .. to of the list.
RECURSIVE AddLayers(_, _, _, _)
AddLayers(acc, cands, from, to) ==
    IF from > to THEN acc
    ELSE AddLayers(add_layer(acc, cands[from]), cands, from + 1, to)

\* The loop of create_parallel and of create_from_local_parallel_no_api.
RECURSIVE ParallelLoop(_, _, _, _, _)
ParallelLoop(st, cands, first, to_process, m) ==
    IF st.err # NoError \/ ~(to_process > 0) THEN st
    ELSE LET tasks == IF to_process > NUM_GRANULES_TO_WRITE
                      THEN NUM_GRANULES_TO_WRITE ELSE to_process
             added == [st EXCEPT !.acc = AddLayers(@, cands, first + 1, first + tasks)]
             combined == CombineLayersOn(added, m)
         IN  ParallelLoop(
                 [combined EXCEPT !.is_first_write = IF first = 0 THEN FALSE ELSE @],
                 cands, first + tasks, to_process - tasks, m)

\* The loop of the create method named path, on the results cands.
LoopOf(method, cands, m) ==
    IF method \in ParallelPaths
    THEN ParallelLoop(LoopStart, cands, 0, Len(cands), m)
    ELSE SequentialLoop(LoopStart, cands, 1, m)

\* The create method runs its loop on the results of the fetches.
RunLoop ==
    /\ pc = "start"
    /\ \E m \in ToZarrChoices :
        LET st == LoopOf(path, results, m)
        IN  /\ store' = st.store
            /\ SetAccumulator(st.acc)
            /\ is_first_write' = st.is_first_write
            /\ err' = st.err
            /\ pc' = IF st.err = NoError THEN "stats" ELSE "error"
    /\ fetched' = {results[k][4] : k \in 1..Len(results)}
    /\ UNCHANGED <<envVars, toolVars, stats, dedupVars, callVars, results, idx, start,
                   num_to_process, num_tasks, layers>>

\* The granules of the deduplicated lists: no two with the same mid-point.
LoopUrls ==
    {MakeUrl(2, 4, 1, 6, "P038"), MakeUrl(3, 4, 1, 6, "P038"),
     MakeUrl(4, 4, 1, 6, "P038")}

\* What preprocess_dataset may return for the granule at url.
ResultsOfUrl(url) ==
    {preprocess_dataset(d, url, TargetProjection) : d \in FetchDs(url)}

\* A create method after clear() and skip_duplicate_granules, with the result
\* of the fetch of every granule of the list fixed.
InitLoops ==
    /\ err = NoError
    /\ stats = None
    /\ ToolsIdle
    /\ fetched = {}
    /\ i = 1
    /\ url_mid_dates = <<>>
    /\ keep_urls \in ListsOf(LoopUrls, MaxUrls)
    /\ found_urls = keep_urls
    /\ results \in {r \in [1..Len(keep_urls) -> UNION {ResultsOfUrl(u) : u \in LoopUrls}] :
                       \A k \in 1..Len(keep_urls) : r[k] \in ResultsOfUrl(keep_urls[k])}
    /\ idx = 1
    /\ start = 0
    /\ num_to_process = 0
    /\ num_tasks = 0
    /\ pc = "start"
    /\ ds = <<>>
    /\ dates = <<>>
    /\ urls = <<>>
    /\ layers = NoLayers
    /\ num_urls_from_api = Some(Len(keep_urls))
    /\ skipped_proj_granules = <<>>
    /\ skipped_empty_granules = <<>>
    /\ skipped_double_granules = <<>>
    /\ ds_in = None
    /\ target_existed = FALSE
    /\ path \in Paths
    /\ listing = keep_urls
    /\ num_granules = None
    /\ projection = TargetProjection
    /\ store = NoStore
    /\ is_first_write = TRUE

SpecLoops == InitLoops /\ [][RunLoop]_vars

\* ------------------------------------------ itslive_utils: the search API

\* The greatest total_retries of the calls.
MaxRetries == 3

\* The other variables while a function of itslive_utils runs.
PipelineIdle ==
    /\ InitObject
    /\ err = NoError
    /\ stats = None
    /\ fetched = {}
    /\ i = 1
    /\ url_mid_dates = <<>>
    /\ results = <<>>
    /\ idx = 1
    /\ start = 0
    /\ num_to_process = 0
    /\ num_tasks = 0
    /\ is_first_write = TRUE
    /\ found_urls = <<>>
    /\ keep_urls = <<>>
    /\ ds_in = None
    /\ target_existed = FALSE
    /\ path = DirectCall
    /\ listing = <<>>
    /\ num_granules = None
    /\ projection = TargetProjection
    /\ store = NoStore

\* A piece of text in the file at local_path: the JSON list (or the archive
\* of the JSON list) named json, or a part of one; with or without the end of
\* a line after it. The list of the response to attempt n is named n, the
\* list an earlier run got is named 0.
Truncated == -1

\* What requests.get gives at attempt n: it raises (None), or a response with
\* the whole list or a part of it.
Responses(n) == {None, Some([json |-> n, newline |-> FALSE]),
                 Some([json |-> Truncated, newline |-> FALSE])}

\* The file at local_path when the function is called: none, or what a run
\* that was stopped before its clean-up left there.
StaleFiles == {None, Some(<<[json |-> 0, newline |-> TRUE]>>),
               Some(<<[json |-> 0, newline |-> FALSE]>>),
               Some(<<[json |-> Truncated, newline |-> FALSE]>>)}

\* open(local_path, 'wb') and open(local_path, 'a'), and the chunks written.
Written_(function, file, body) ==
    IF function = "get_granule_urls_compressed"
    THEN <<body>>
    ELSE (IF file = None THEN <<>> ELSE file[1]) \o <<body>>

\* fh.readline(): the text up to the first end of a line.
RECURSIVE ReadLine(_)
ReadLine(content) ==
    IF content = <<>> THEN <<>>
    ELSE IF Head(content).newline THEN <<Head(content)>>
    ELSE <<Head(content)>> \o ReadLine(Tail(content))

\* What the attempt reads from the file: json.load of the first member of the
\* archive, or json.loads of the first line with every '][' made a ','.
\* None when it raises.
Parsed(function, content) ==
    LET text == IF function = "get_granule_urls_compressed"
                THEN content ELSE ReadLine(content)
    IN  IF \E k \in 1..Len(text) : text[k].json = Truncated
        THEN None
        ELSE Some([k \in 1..Len(text) |-> text[k].json])

\* One iteration of the while loop: try, except and finally.
Attempt ==
    /\ pc = "retry_loop"
    /\ ~got_granules /\ num_retries < total_retries
    /\ num_retries' = num_retries + 1
    /\ \E resp \in Responses(num_retries + 1) :
        LET content == Written_(func, local_file, resp[1])
            parsed == IF resp = None THEN None ELSE Parsed(func, content)
            slept == IF parsed = None /\ num_retries' < total_retries
                     THEN <<"sleep">> ELSE <<>>
        IN  /\ got_granules' = (parsed # None)
            /\ data' = IF parsed # None THEN parsed[1]
                       ELSE IF resp # None /\ func = "get_granule_urls_streamed"
                            THEN <<Truncated>>
                            ELSE data
            /\ calls' = calls \o <<"get">> \o slept
    /\ local_file' = None
    /\ UNCHANGED <<pc, err, func, total_retries, fixVars, granules>>
    /\ UNCHANGED <<envVars, stats, store, fetched, dedupVars, callVars, loopVars, accVars>>

\* After the loop: raise RuntimeError, or return data.
RetryExit ==
    /\ pc = "retry_loop"
    /\ ~(~got_granules /\ num_retries < total_retries)
    /\ IF ~got_granules
       THEN pc' = "raised" /\ err' = "RuntimeError: searchAPI"
       ELSE pc' = "returned" /\ err' = err
    /\ UNCHANGED <<retryVars, fixVars, granules>>
    /\ UNCHANGED <<envVars, stats, store, fetched, dedupVars, callVars, loopVars, accVars>>

\* A call of get_granule_urls_compressed or of get_granule_urls_streamed.
InitRetry ==
    /\ PipelineIdle
    /\ pc = "retry_loop"
    /\ func \in {"get_granule_urls_compressed", "get_granule_urls_streamed"}
    /\ total_retries \in (-1)..MaxRetries
    /\ num_retries = 0
    /\ got_granules = FALSE
    /\ data = <<>>
    /\ local_file \in StaleFiles
    /\ calls = <<>>
    /\ all_zarr_datacubes = <<>>
    /\ num_dask_workers = 1
    /\ start_cube = 0
    /\ num_to_fix = 0
    /\ fixed = <<>>
    /\ granules = <<>>

NextRetry == Attempt \/ RetryExit

SpecRetry == InitRetry /\ [][NextRetry]_vars

\* ----------------------------------- restore_cubes_S1_M11_M12: FixDatacubes

\* The greatest number of datacubes in the bucket, and of Dask workers.
MaxCubes == 4
MaxWorkers == 3

\* self.all_zarr_datacubes[from:to] for 0 <= from <= to.
Slice(lst, from, to) ==
    LET last == IF to < Len(lst) THEN to ELSE Len(lst)
    IN  IF from >= last THEN <<>> ELSE SubSeq(lst, from + 1, last)

\* "# For debugging": what num_to_fix is set to before the loop.
DebugNumToFix(to_fix) == 1

\* The head of __call__: the count of the cubes to fix, the early return and
\* the assignment before the loop.
FixEnter ==
    /\ pc = "fix_call"
    /\ start' = start_cube
    /\ IF Len(all_zarr_datacubes) - start_cube <= 0
       THEN /\ num_to_fix' = Len(all_zarr_datacubes) - start_cube
            /\ pc' = "fix_done"
       ELSE /\ num_to_fix' = DebugNumToFix(Len(all_zarr_datacubes) - start_cube)
            /\ pc' = "fix_loop"
    /\ UNCHANGED <<all_zarr_datacubes, num_dask_workers, start_cube, fixed>>
    /\ UNCHANGED <<err, envVars, retryVars, granules, stats, store, fetched, dedupVars, callVars,
                   results, idx, num_to_process, num_tasks, is_first_write, accVars>>

\* One iteration of the while loop: the tasks of the group and dask.compute.
FixGroup ==
    /\ pc = "fix_loop"
    /\ num_to_fix > 0
    /\ num_tasks' = IF num_to_fix > num_dask_workers THEN num_dask_workers ELSE num_to_fix
    /\ fixed' = Append(fixed, Slice(all_zarr_datacubes, start, start + num_tasks'))
    /\ num_to_fix' = num_to_fix - num_tasks'
    /\ start' = start + num_tasks'
    /\ UNCHANGED <<all_zarr_datacubes, num_dask_workers, start_cube>>
    /\ UNCHANGED <<pc, err, envVars, retryVars, granules, stats, store, fetched, dedupVars, callVars,
                   results, idx, num_to_process, is_first_write, accVars>>

\* while num_to_fix > 0 is over.
FixReturn ==
    /\ pc = "fix_loop"
    /\ ~(num_to_fix > 0)
    /\ pc' = "fix_done"
    /\ UNCHANGED <<err, envVars, toolVars, stats, store, fetched, dedupVars, callVars,
                   loopVars, accVars>>

\* main(): a FixDatacubes object over the cubes of the bucket (the sorted
\* list of n cube names), called with the number of workers and the index of
\* the first cube of the command line.
InitFix ==
    /\ PipelineIdle
    /\ func = "none"
    /\ total_retries = 0
    /\ num_retries = 0
    /\ got_granules = FALSE
    /\ data = <<>>
    /\ local_file = None
    /\ calls = <<>>
    /\ granules = <<>>
    /\ pc = "fix_call"
    /\ all_zarr_datacubes \in {[k \in 1..n |-> k] : n \in 0..MaxCubes}
    /\ num_dask_workers \in 1..MaxWorkers
    /\ start_cube \in 0..(MaxCubes + 1)
    /\ num_to_fix = 0
    /\ fixed = <<>>

NextFix == FixEnter \/ FixGroup \/ FixReturn

SpecFix == InitFix /\ [][NextFix]_vars

\* ------------------- make_geojson_features_for_imagepairs_v1p1: duplicates

\* The tokens of the base name of a radar format granule split at '_', as in
\* S1A_IW_SLC__1SSH_20170221T204710_20170221T204737_015387_0193F6_AB07_X_
\* S1B_IW_SLC__1SSH_20170227T204628_20170227T204655_004491_007D11_6654_G0240V02_P094.nc
MakeRadarUrl(start1, stop1, id1, start2, stop2, id2) ==
    <<"S1A", "IW", "SLC", "", "1SSH", start1, stop1, "015387", "0193F6", id1, "X",
      "S1B", "IW", "SLC", "", "1SSH", start2, stop2, "004491", "007D11", id2,
      "G0240V02", "P094">>

\* The file names of the catalog: optical granules of one image pair with
\* every processing date and tag, one of another pair, and radar granules, two
\* of them of the same start and stop times.
CatalogUrls ==
    {MakeUrl(2, p1, 1, p2, t) : p1 \in Proc1Days, p2 \in Proc2Days, t \in Tags}
        \cup {MakeUrl(3, 4, 1, 6, "P038")}
        \cup {MakeRadarUrl(2, 3, "AB07", 1, 2, "6654"),
              MakeRadarUrl(2, 3, "AB08", 1, 2, "6655"),
              MakeRadarUrl(3, 4, "AB07", 1, 2, "6654")}

\* filename.split('_X_'): the tokens of the two image names. The first image
\* name of the file names at hand has 7 tokens or 10.
SplitAtX(filename) ==
    LET x == IF filename[8] = "X" THEN 8 ELSE 11
    IN  <<SubSeq(filename, 1, x - 1), SubSeq(filename, x + 1, Len(filename))>>

\* tokens[n] of Python for n >= 0 and for n < 0.
Token(tokens, n) == IF n >= 0 THEN tokens[n + 1] ELSE tokens[Len(tokens) + n + 1]

get_tokens_from_filename(filename) ==
    LET url_files == SplitAtX(filename)
    IN  IF Len(url_files[1]) < 9
        THEN [is_optical |-> TRUE,
              first_date_1 |-> Token(url_files[1], 3),
              second_date_1 |-> Token(url_files[1], 4),
              key_1 |-> Token(url_files[1], 2),
              first_date_2 |-> Token(url_files[2], 3),
              second_date_2 |-> Token(url_files[2], 4),
              key_2 |-> Token(url_files[2], 2)]
        ELSE [is_optical |-> FALSE,
              first_date_1 |-> Token(url_files[1], -5),
              second_date_1 |-> Token(url_files[1], -4),
              key_1 |-> Token(url_files[1], -1),
              first_date_2 |-> Token(url_files[2], -7),
              second_date_2 |-> Token(url_files[2], -6),
              key_2 |-> Token(url_files[2], -3)]

\* date.strftime(format): the text of the date in the format.
strftime(date, format) == <<format, date>>

GranuleId(t) ==
    IF t.is_optical
    THEN <<strftime(t.first_date_1, "%Y%m%d"), t.key_1,
           strftime(t.first_date_2, "%Y%m%d"), t.key_2>>
    ELSE <<strftime(t.first_date_1, "%Y%m%dT%H%M%S"),
           strftime(t.second_date_1, "%Y%m%dT%H%M%S"),
           strftime(t.first_date_2, "%Y%m%dT%H%M%S"),
           strftime(t.second_date_2, "%Y%m%dT%H%M%S")>>

\* The dict keep_urls is the list of its items, in the order the keys were
\* set: the position of the item of key, or 0.
ItemOf(dict, key) ==
    IF \E k \in 1..Len(dict) : dict[k].key = key
    THEN CHOOSE k \in 1..Len(dict) : dict[k].key = key
    ELSE 0

\* One iteration of the loop over found_urls of the catalog tool. st holds
\* keep_urls and skipped_double_granules.
MutCatalogStepForgetsRemoved(st, each_url) ==
    LET t == get_tokens_from_filename(each_url)
        granule_id == GranuleId(t)
        k == ItemOf(st.keep_urls, granule_id)
    IN  IF k = 0
        THEN [st EXCEPT !.keep_urls = Append(@, [key |-> granule_id, value |-> <<each_url>>])]
        ELSE [st EXCEPT !.keep_urls[k].value = <<each_url>>]
CatalogStep(st, each_url) ==
    LET t == get_tokens_from_filename(each_url)
        url_proc_1 == t.second_date_1
        url_proc_2 == t.second_date_2
        granule_id == GranuleId(t)
        k == ItemOf(st.keep_urls, granule_id)
    IN  IF k = 0
        THEN [st EXCEPT !.keep_urls = Append(@, [key |-> granule_id, value |-> <<each_url>>])]
        ELSE IF ~t.is_optical
        THEN [st EXCEPT !.keep_urls[k].value = Append(@, each_url)]
        ELSE
          LET kept == st.keep_urls[k].value
              keep_found_url ==
                  \E j \in 1..Len(kept) :
                      LET f == get_tokens_from_filename(kept[j])
                      IN  url_proc_1 = f.second_date_1 /\ url_proc_2 = f.second_date_2
              ToRemove(found_url) ==
                  LET f == get_tokens_from_filename(found_url)
                  IN  \/ url_proc_1 >= f.second_date_1 /\ url_proc_2 >= f.second_date_2
                      \/ url_proc_1 > f.second_date_1
              remove_urls == SelectSeq(kept, ToRemove)
              NotRemoved(each) == \A j \in 1..Len(remove_urls) : remove_urls[j] # each
          IN  IF keep_found_url
              THEN [st EXCEPT !.keep_urls[k].value = Append(@, each_url)]
              ELSE IF Len(remove_urls) # 0
                   THEN [st EXCEPT
                           !.skipped = @ \o remove_urls,
                           !.keep_urls[k].value =
                               Append(SelectSeq(kept, NotRemoved), each_url)]
                   ELSE [st EXCEPT !.skipped = Append(@, each_url)]

\* for each in keep_urls.values(): granules.extend(each)
RECURSIVE Values(_)
Values(dict) ==
    IF dict = <<>> THEN <<>> ELSE Head(dict).value \o Values(Tail(dict))

CatalogIter ==
    /\ pc = "catalog"
    /\ i <= Len(found_urls)
    /\ LET st == CatalogStep([keep_urls |-> keep_urls,
                              skipped |-> skipped_double_granules], found_urls[i])
       IN  /\ keep_urls' = st.keep_urls
           /\ skipped_double_granules' = st.skipped
    /\ i' = i + 1
    /\ UNCHANGED <<pc, err, found_urls, url_mid_dates, num_urls_from_api>>
    /\ UNCHANGED <<envVars, toolVars, stats, store, fetched, callVars, loopVars, accVars>>

CatalogReturn ==
    /\ pc = "catalog"
    /\ i > Len(found_urls)
    /\ granules' = Values(keep_urls)
    /\ pc' = "catalog_done"
    /\ UNCHANGED <<err, envVars, retryVars, fixVars, stats, store, fetched, dedupVars,
                   callVars, loopVars, accVars>>

\* skip_duplicate_granules of the catalog tool called on every list of at
\* most MaxUrls file names.
InitCatalog ==
    /\ func = "none"
    /\ total_retries = 0
    /\ num_retries = 0
    /\ got_granules = FALSE
    /\ data = <<>>
    /\ local_file = None
    /\ calls = <<>>
    /\ all_zarr_datacubes = <<>>
    /\ num_dask_workers = 1
    /\ start_cube = 0
    /\ num_to_fix = 0
    /\ fixed = <<>>
    /\ pc = "catalog"
    /\ found_urls \in SeqsUpTo(CatalogUrls, MaxUrls)
    /\ keep_urls = <<>>
    /\ skipped_double_granules = <<>>
    /\ i = 1
    /\ granules = <<>>
    /\ err = NoError
    /\ stats = None
    /\ url_mid_dates = <<>>
    /\ num_urls_from_api = None
    /\ path = DirectCall
    /\ listing = <<>>
    /\ num_granules = None
    /\ projection = TargetProjection
    /\ store = NoStore
    /\ fetched = {}
    /\ ds_in = None
    /\ target_existed = FALSE
    /\ results = <<>>
    /\ idx = 1
    /\ start = 0
    /\ num_to_process = 0
    /\ num_tasks = 0
    /\ is_first_write = TRUE
    /\ ds = <<>>
    /\ dates = <<>>
    /\ urls = <<>>
    /\ layers = NoLayers
    /\ skipped_proj_granules = <<>>
    /\ skipped_empty_granules = <<>>

NextCatalog == CatalogIter \/ CatalogReturn

SpecCatalog == InitCatalog /\ [][NextCatalog]_vars

\* ======================================================= duplicate resolution

Range(seq) == {seq[k] : k \in 1..Len(seq)}

SeqToBag(seq) == [x \in Range(seq) |-> Cardinality({k \in 1..Len(seq) : seq[k] = x})]

\* The part of found_urls the loop has been through.
Processed == SubSeq(found_urls, 1, i - 1)

\* The loop is about to examine a granule whose mid-point date is that of a
\* kept granule of the same image pair.
Collision ==
    /\ pc = "dedup"
    /\ i <= Len(found_urls)
    /\ InSeq(url_mid_dates, UrlMidDate(found_urls[i]))
    /\ LET found_url == keep_urls[IndexOf(url_mid_dates, UrlMidDate(found_urls[i]))]
       IN  /\ found_urls[i][4] = found_url[4]
           /\ found_urls[i][12] = found_url[12]

KeptIndex == IndexOf(url_mid_dates, UrlMidDate(found_urls[i]))

\* C1: on a collision of the incoming granule with the kept granule of the
\* same mid-point date and image pair, the incoming granule takes the kept
\* one's place if and only if its processing date of image 1 and its
\* processing date of image 2 are both greater than or equal to the kept
\* one's (a full tie replaces); otherwise the kept list does not change.
C1_ReplaceIffBothNewer ==
    [][Collision =>
        LET each_url == found_urls[i]
            found_url == keep_urls[KeptIndex]
        IN  IF each_url[5] >= found_url[5] /\ each_url[13] >= found_url[13]
            THEN keep_urls' = [keep_urls EXCEPT ![KeptIndex] = each_url]
            ELSE keep_urls' = keep_urls]_vars

\* A full tie between two different file names: the later one is kept.
C1_Witness ==
    /\ pc = "dedup_done"
    /\ Len(found_urls) = 2
    /\ found_urls[1] # found_urls[2]
    /\ get_dates_from_filename(found_urls[1]) = get_dates_from_filename(found_urls[2])
    /\ keep_urls = <<found_urls[2]>>

\* The kept granules of a list, keyed by mid-point date.
KeptByMid(keep) == {<<UrlMidDate(u), u>> : u \in Range(keep)}

Permuted(lst, p) == [k \in 1..Len(lst) |-> lst[p[k]]]

OrderIndependent(lst) ==
    \A p \in Permutations(1..Len(lst)) :
        KeptByMid(SkipDuplicates(Permuted(lst, p)).keep_urls)
            = KeptByMid(SkipDuplicates(lst).keep_urls)

\* No two granules of the list have the same processing date of image 1, nor
\* the same processing date of image 2.
DistinctProcDates(lst) ==
    \A a, b \in 1..Len(lst) :
        a # b => lst[a][5] # lst[b][5] /\ lst[a][13] # lst[b][13]

\* Any two granules of the list that share a mid-point date differ in a
\* processing date, and one of them has both processing dates greater than or
\* equal to the other's.
ComparableProcDates(lst) ==
    \A a, b \in 1..Len(lst) :
        (a # b /\ UrlMidDate(lst[a]) = UrlMidDate(lst[b])) =>
            /\ <<lst[a][5], lst[a][13]>> # <<lst[b][5], lst[b][13]>>
            /\ \/ lst[a][5] >= lst[b][5] /\ lst[a][13] >= lst[b][13]
               \/ lst[b][5] >= lst[a][5] /\ lst[b][13] >= lst[a][13]

\* C4 as stated: for a list with pairwise distinct processing dates the kept
\* set, keyed by mid-point date, is the same for every permutation of the list.
C4_OrderIndependentIfDistinct ==
    (pc = "dedup_done" /\ DistinctProcDates(found_urls)) =>
        /\ keep_urls = SkipDuplicates(found_urls).keep_urls
        /\ OrderIndependent(found_urls)

\* C4 amended: when any two granules that share a mid-point date have
\* different and comparable processing dates, the kept set, keyed by
\* mid-point date, is the same for every permutation of the list.
C4_OrderIndependentIfComparable ==
    (pc = "dedup_done" /\ ComparableProcDates(found_urls)) =>
        /\ keep_urls = SkipDuplicates(found_urls).keep_urls
        /\ OrderIndependent(found_urls)

\* Three granules of one image pair, each newer than the one before.
C4_Witness ==
    /\ pc = "dedup_done"
    /\ Len(found_urls) = 3
    /\ ComparableProcDates(found_urls)
    /\ Len(keep_urls) = 1
    /\ keep_urls[1] = found_urls[2]

\* C5: each collision appends to skipped_double_granules exactly the one of
\* the two granules that is not kept, and nothing else does; so the granules
\* examined so far are, counted with repetition, those of the kept list
\* together with those of skipped_double_granules.
C5_LoserRecorded ==
    /\ [](pc \in {"dedup", "dedup_done"} =>
            /\ SeqToBag(Processed) = SeqToBag(keep_urls) (+) SeqToBag(skipped_double_granules)
            /\ Len(keep_urls) + Len(skipped_double_granules) = Len(Processed))
    /\ [][(pc = "dedup" /\ i <= Len(found_urls)) =>
            IF Collision
            THEN LET each_url == found_urls[i]
                     found_url == keep_urls[KeptIndex]
                 IN  skipped_double_granules' =
                        Append(skipped_double_granules,
                               IF keep_urls'[KeptIndex] = each_url THEN found_url
                               ELSE each_url)
            ELSE skipped_double_granules' = skipped_double_granules]_vars

\* The scenario: A, then B of the same image pair and newer on both images.
C5_Witness ==
    /\ pc = "dedup_done"
    /\ Len(found_urls) = 2
    /\ found_urls[1][4] = found_urls[2][4]
    /\ found_urls[1][12] = found_urls[2][12]
    /\ found_urls[2][5] > found_urls[1][5]
    /\ found_urls[2][13] > found_urls[1][13]
    /\ keep_urls = <<found_urls[2]>>
    /\ skipped_double_granules = <<found_urls[1]>>

\* A list without its repetitions, each element at its first occurrence.
RECURSIVE FirstOccurrences(_)
FirstOccurrences(seq) ==
    IF seq = <<>> THEN <<>>
    ELSE LET front == SubSeq(seq, 1, Len(seq) - 1)
             last == seq[Len(seq)]
         IN  IF InSeq(front, last) THEN FirstOccurrences(front)
             ELSE Append(FirstOccurrences(front), last)

MidDatesOf(lst) == [k \in 1..Len(lst) |-> UrlMidDate(lst[k])]

\* C6: the mid-point dates of the kept list are those of the input in the
\* order of their first occurrence, and each position of the kept list holds
\* a granule of the input; so a replacement stands where the replaced granule
\* stood.
C6_OrderStable ==
    pc \in {"dedup", "dedup_done"} =>
        /\ MidDatesOf(keep_urls) = FirstOccurrences(MidDatesOf(Processed))
        /\ Range(keep_urls) \subseteq Range(Processed)

\* A, C, then A' which replaces A: the kept list is A', C.
C6_Witness ==
    /\ pc = "dedup_done"
    /\ Len(found_urls) = 3
    /\ keep_urls = <<found_urls[3], found_urls[2]>>
    /\ found_urls[3] # found_urls[1]

\* ========================================================= spatial filtering

\* The decoded granule has a cell with a value of v inside the bounds of the cube.
HasValueInRegion(d) ==
    \E c \in d.v :
        /\ c[1] >= self_x.min /\ c[1] <= self_x.max
        /\ c[2] >= self_y.min /\ c[2] <= self_y.max

\* C8: a granule is rejected for one reason at most, the projection being
\* looked at first: a granule of another projection comes back with
\* empty = False, no mid-date and no layer, whatever its data; empty = True
\* comes back exactly for a granule of the target projection with no value of
\* v inside the region; any other granule comes back with empty = False, a
\* mid-date and a layer.
C8_RejectedForOneReason ==
    pc = "read_done" =>
        LET res == results[1]
            d == ds_in[1]
            in_projection == ToString(d.spatial_epsg) = projection
        IN  /\ res[2] = d.spatial_epsg
            /\ res[4] = keep_urls[idx]
            /\ ~in_projection => (res[1] = FALSE /\ res[3] = None /\ res[5] = None)
            /\ res[1] = TRUE <=> (in_projection /\ ~HasValueInRegion(d))
            /\ res[1] = TRUE => (res[3] = None /\ res[5] = None)
            /\ (in_projection /\ HasValueInRegion(d)) =>
                    /\ res[1] = FALSE
                    /\ res[3] = Some(d.date_center * MsPerDay + IntDays(d.date_dt))
                    /\ res[5] # None
                    /\ res[5][1].v # {}

\* A granule of another projection that has no data in the region either.
C8_Witness ==
    /\ pc = "read_done"
    /\ ToString(ds_in[1].spatial_epsg) # projection
    /\ ~HasValueInRegion(ds_in[1])
    /\ results[1][1] = FALSE
    /\ results[1][5] = None

\* ================================================================ the run

\* skip_duplicate_granules has returned its kept list.
DedupHasReturned ==
    /\ num_urls_from_api # None
    /\ i > Len(found_urls)
    /\ pc \notin {"start", "request", "dedup"}

\* combine_layers has started in this run: it wrote the store or it raised.
CombineStarted == pc # "start" /\ (store.exists \/ layers # NoLayers)

AcqPair(url) ==
    LET d == get_dates_from_filename(url) IN <<d.acq_1, d.acq_2>>

\* C2: after skip_duplicate_granules returns, no two granules of the kept list
\* have the same mid-point timestamp and no two have the same acquisition
\* pair; and in every create path skip_duplicate_granules has returned before
\* the first combine_layers starts.
C2_KeptUniqueBeforeWrite ==
    /\ DedupHasReturned =>
          \A a, b \in 1..Len(keep_urls) :
              a # b => /\ UrlMidDate(keep_urls[a]) # UrlMidDate(keep_urls[b])
                       /\ AcqPair(keep_urls[a]) # AcqPair(keep_urls[b])
    /\ CombineStarted => DedupHasReturned

\* A run that dropped a duplicate and then wrote the store.
C2_Witness ==
    /\ pc = "done"
    /\ store.exists
    /\ Len(keep_urls) < Len(found_urls)
    /\ Len(keep_urls) > 1

\* C7: when the search returns no granule, request_granules raises before
\* skip_duplicate_granules is entered, and create and create_parallel read no
\* granule, add no layer and never call combine_layers.
C7_NoGranulesNoWork ==
    (path \in ApiPaths /\ Len(listing) = 0 /\ pc \notin {"start", "request"}) =>
        /\ pc = "error"
        /\ err = "RuntimeError: no granules"
        /\ num_urls_from_api = None
        /\ found_urls = <<>> /\ keep_urls = <<>> /\ i = 1
        /\ fetched = {}
        /\ results = <<>>
        /\ ds = <<>> /\ dates = <<>> /\ urls = <<>>
        /\ skipped_empty_granules = <<>> /\ skipped_proj_granules = <<>>
        /\ ~CombineStarted

C7_Witness ==
    /\ path \in ApiPaths
    /\ Len(listing) = 0
    /\ pc = "error"

\* The result res went to the accepted lists and nowhere else.
RoutedAccepted(before, res, after) ==
    /\ after.ds = Append(before.ds, res[5][1])
    /\ after.dates = Append(before.dates, res[3][1])
    /\ after.urls = Append(before.urls, res[4])
    /\ after.skipped_empty = before.skipped_empty
    /\ after.skipped_proj = before.skipped_proj

\* The result res went to skipped_empty_granules and nowhere else.
RoutedEmpty(before, res, after) ==
    /\ after.skipped_empty = Append(before.skipped_empty, res[4])
    /\ after.ds = before.ds /\ after.dates = before.dates /\ after.urls = before.urls
    /\ after.skipped_proj = before.skipped_proj

\* The result res went to skipped_proj_granules under its own projection id
\* and nowhere else.
RoutedWrongProjection(before, res, after) ==
    /\ DOMAIN after.skipped_proj = DOMAIN before.skipped_proj \cup {res[2]}
    /\ \A key \in DOMAIN after.skipped_proj :
          after.skipped_proj[key] =
              IF key = res[2]
              THEN Append(IF key \in DOMAIN before.skipped_proj
                          THEN before.skipped_proj[key] ELSE <<>>, res[4])
              ELSE before.skipped_proj[key]
    /\ after.skipped_empty = before.skipped_empty
    /\ after.ds = before.ds /\ after.dates = before.dates /\ after.urls = before.urls

Routed(before, res, after) ==
    IF res[5] # None
    THEN RoutedAccepted(before, res, after)
    ELSE IF res[1]
         THEN RoutedEmpty(before, res, after)
         ELSE RoutedWrongProjection(before, res, after)

\* The results of the batch that are in another projection.
WrongProjection(res) == res[5] = None /\ ~res[1]
WrongIn(batch) == {k \in 1..Len(batch) : WrongProjection(batch[k])}

\* The urls of the results of the batch in projection key, in batch order.
RECURSIVE UrlsOfProjection(_, _)
UrlsOfProjection(batch, key) ==
    IF batch = <<>>
    THEN <<>>
    ELSE IF WrongProjection(Head(batch)) /\ Head(batch)[2] = key
         THEN <<Head(batch)[4]>> \o UrlsOfProjection(Tail(batch), key)
         ELSE UrlsOfProjection(Tail(batch), key)

\* The first batch of a parallel run went through add_layer.
FirstBatchAdded ==
    /\ pc = "add_layers"
    /\ idx > Len(results)
    /\ start = 0

\* C9: add_layer routes every result to exactly one destination: the accepted
\* lists when a layer is present, skipped_empty_granules when there is no layer
\* and the empty flag is set, otherwise skipped_proj_granules under the
\* granule's own projection id; and a batch of n granules of which k are in
\* another projection and none is empty yields n-k accepted layers and k
\* entries of the wrong-projection map, grouped by projection id.
C9_RoutedToOneDestination ==
    /\ [][/\ (pc = "add_layers" /\ idx <= Len(results)) =>
                Routed(Accumulator, results[idx], Accumulator')
          /\ (pc = "seq_loop" /\ idx <= Len(keep_urls) /\ pc' = "seq_loop"
              /\ store' = store) =>
                Routed(Accumulator, results'[1], Accumulator')]_vars
    /\ [](FirstBatchAdded /\ (\A k \in 1..Len(results) : ~results[k][1]) =>
            /\ Len(ds) = Len(results) - Cardinality(WrongIn(results))
            /\ Len(dates) = Len(ds) /\ Len(urls) = Len(ds)
            /\ skipped_empty_granules = <<>>
            /\ DOMAIN skipped_proj_granules = {results[k][2] : k \in WrongIn(results)}
            /\ \A key \in DOMAIN skipped_proj_granules :
                  skipped_proj_granules[key] = UrlsOfProjection(results, key))

\* A batch of two granules, one of them in another projection.
C9_Witness ==
    /\ FirstBatchAdded
    /\ Len(results) = 2
    /\ Cardinality(WrongIn(results)) = 1
    /\ Len(ds) = 1
    /\ \E key \in DOMAIN skipped_proj_granules : Len(skipped_proj_granules[key]) = 1

\* The layers of the store written by this run.
Written == IF pc = "start" THEN <<>> ELSE store.slices
WrittenUrls == {Written[k].url : k \in 1..Len(Written)}
CountedWrongProjection ==
    UNION {Range(skipped_proj_granules[key]) : key \in DOMAIN skipped_proj_granules}

AllFetched == \A k \in 1..Len(results) : results[k] # Pending

\* The granules of the batch at hand, and those of the batches before it.
BatchUrls == {keep_urls[start + k] : k \in 1..num_tasks}
PriorUrls == {keep_urls[k] : k \in 1..start}

\* A step in the middle of a run: neither its head nor a new run.
RunStep == pc # "start" /\ pc' # "start"

\* C11: in the parallel create paths no result of a batch is folded into the
\* accumulator and nothing of the batch is written to the store until every
\* fetch task of the batch has completed, in whatever order the workers
\* finish; a batch of which only part was fetched is never written.
C11_WholeBatchBeforeFold ==
    /\ []((path \in ParallelPaths /\ pc = "compute") =>
            /\ ds = <<>> /\ dates = <<>> /\ urls = <<>>
            /\ BatchUrls \cap WrittenUrls = {})
    /\ [][(path \in ParallelPaths /\ RunStep
           /\ (Accumulator' # Accumulator \/ store' # store)) =>
            /\ pc = "add_layers"
            /\ Len(results) = num_tasks
            /\ AllFetched
            /\ BatchUrls \subseteq fetched]_vars

\* The second task of a batch has completed, the first has not.
C11_Witness ==
    /\ path \in ParallelPaths
    /\ pc = "compute"
    /\ Len(results) = 2
    /\ results[1] = Pending
    /\ results[2] # Pending
    /\ results[2][5] # None

\* The granules the run is through with: written or counted as skipped.
Settled ==
    WrittenUrls \cup Range(skipped_empty_granules) \cup CountedWrongProjection

\* C12: batches are processed strictly in sequence: no fetch task of batch
\* N+1 is started before combine_layers of batch N has written to the store
\* and clear_vars has released the layers of the batch.
C12_BatchesInSequence ==
    /\ []((path \in ParallelPaths /\ pc = "compute") =>
            /\ ds = <<>> /\ dates = <<>> /\ urls = <<>> /\ layers = NoLayers
            /\ PriorUrls \subseteq Settled
            /\ start > 0 => store.exists
            /\ fetched \subseteq PriorUrls \cup BatchUrls)
    /\ [][(path \in ParallelPaths /\ RunStep /\ fetched' # fetched) =>
            /\ fetched' \ fetched \subseteq BatchUrls
            /\ PriorUrls \subseteq fetched \cap Settled]_vars

\* A granule of the second batch has been fetched.
C12_Witness ==
    /\ path \in ParallelPaths
    /\ pc = "compute"
    /\ start > 0
    /\ results[1] # Pending
    /\ Len(store.slices) > 0

\* C13: in every reachable state of every create path the accumulator holds at
\* most NUM_GRANULES_TO_WRITE layers, however many granules there are.
C13_AtMostOneBatchHeld ==
    /\ Len(ds) <= NUM_GRANULES_TO_WRITE
    /\ Len(dates) <= NUM_GRANULES_TO_WRITE
    /\ Len(urls) <= NUM_GRANULES_TO_WRITE
    /\ Len(results) <= NUM_GRANULES_TO_WRITE

\* A full batch is held, and there are more granules than a batch.
C13_Witness ==
    /\ Len(ds) = NUM_GRANULES_TO_WRITE
    /\ Len(keep_urls) > NUM_GRANULES_TO_WRITE
    /\ pc = "add_layers"

\* ============================================================== the store

\* The calls of to_zarr that wrote to the store of this run.
Writes == IF pc = "start" THEN <<>> ELSE store.writes

\* C14: within a run the missing-value and fill-value metadata is set by
\* exactly one combine_layers call, the first; no later call sets a
\* missing_value attribute or passes a fill-value encoding.
C14_FillValueSetOnce ==
    \A k \in 1..Len(Writes) :
        /\ Writes[k].missing_value = (k = 1)
        /\ Writes[k].encoding = (k = 1)

\* A run that wrote twice.
C14_Witness ==
    /\ pc = "done"
    /\ Len(Writes) = 2

\* C15: in every run the first store write is a create (to_zarr without
\* append_dim) and every later write is an append along mid_date; no create
\* follows an append and no append precedes the create.
C15_CreateThenAppend ==
    /\ [](/\ \A k \in 1..Len(Writes) : Writes[k].append_dim = (k > 1)
          /\ pc # "start" => (store.exists <=> Len(Writes) > 0))
    /\ [][(RunStep /\ store' # store) =>
            /\ Len(store'.writes) = Len(store.writes) + 1
            /\ store'.writes[Len(store'.writes)].append_dim = store.exists]_vars

\* The second write of a sequential run has appended.
C15_Witness ==
    /\ path \notin ParallelPaths
    /\ pc = "stats"
    /\ Len(Writes) = 2
    /\ Writes[2].append_dim

\* C16: after a store write of combine_layers succeeded the accumulator of the
\* batch is cleared: ds, dates and urls are empty and layers is None before
\* the next batch starts, and the three skip lists and num_urls_from_api are
\* as they were.
C16_ClearedAfterWrite ==
    /\ [][(RunStep /\ store' # store /\ pc' # "error") =>
            /\ ds' = <<>> /\ dates' = <<>> /\ urls' = <<>>
            /\ layers' = NoLayers
            /\ UNCHANGED <<skipped_proj_granules, skipped_empty_granules,
                           skipped_double_granules, num_urls_from_api>>]_vars
    /\ [](pc \in {"batch_loop", "compute"} =>
            ds = <<>> /\ dates = <<>> /\ urls = <<>> /\ layers = NoLayers)

\* A batch was written and the skip lists still hold their granules.
C16_Witness ==
    /\ pc = "batch_loop"
    /\ store.exists
    /\ ds = <<>>
    /\ layers = NoLayers
    /\ skipped_empty_granules # <<>>
    /\ skipped_double_granules # <<>>

\* C17: in every create path a target found at output_dir is removed before
\* the first write of the run: the store of the run holds the time-slices the
\* run wrote and nothing else.
C17_TargetRemovedFirst ==
    /\ [](pc # "start" =>
            /\ \A k \in 1..Len(store.slices) : store.slices[k].url \in fetched
            /\ \A a, b \in 1..Len(store.slices) :
                  a # b => store.slices[a].url # store.slices[b].url
            /\ store.exists <=> Len(store.writes) > 0)
    /\ [][pc = "start" => store' = NoStore]_vars

\* The run found a target at output_dir and wrote its own store.
C17_Witness ==
    /\ target_existed
    /\ pc = "done"
    /\ store.exists

\* ============================================================= the errors

\* At the head of a run: output_dir holds what an aborted run appended.
AbortedRunLeft ==
    /\ pc = "start"
    /\ store.exists
    /\ \A k \in 1..Len(store.slices) : store.slices[k].url \in Range(listing)

\* C18 as stated: after a run is aborted by a fatal error in a batch after the
\* first, the batches already appended remain in the store, and re-invoking
\* the pipeline resumes the run: the appended batches are kept and are not
\* processed again.
C18_ResumeKeepsAppended ==
    [][AbortedRunLeft =>
        /\ store'.exists
        /\ SubSeq(store'.slices, 1, Len(store.slices)) = store.slices]_vars

\* combine_layers is about to append layers whose coordinates are not those
\* of the store.
MismatchedAppend ==
    /\ \/ pc = "add_layers" /\ idx > Len(results)
       \/ pc = "seq_loop" /\ idx > Len(keep_urls)
    /\ ~is_first_write
    /\ store.exists
    /\ ds # <<>>
    /\ ConcatX(Accumulator) # store.x \/ ConcatY(Accumulator) # store.y

\* C19 as stated: if the layers of a later batch have x or y coordinates other
\* than those of the first batch written, the append of the batch raises
\* before anything of the batch is written, and the store stays that of the
\* earlier batches.
C19_MismatchedAppendRaises ==
    [][MismatchedAppend => pc' = "error" /\ store' = store]_vars

\* C20: a failure of one fetch aborts the whole run without a retry: no
\* granule is fetched after it, no layer of the failing batch is written to
\* the store, and the error leaves the create method.
C20_FetchFailureIsFatal ==
    /\ [](err = "fetch error" =>
            /\ pc = "error"
            /\ Range(urls) \cap WrittenUrls = {}
            /\ path \in ParallelPaths => BatchUrls \cap WrittenUrls = {})
    /\ [][(RunStep /\ err' = "fetch error") =>
            /\ err # "fetch error"
            /\ UNCHANGED <<store, fetched, accVars, results, idx, start>>]_vars

\* A fetch failed while the accumulator held a layer of the batch.
C20_Witness ==
    /\ err = "fetch error"
    /\ pc = "error"
    /\ Len(urls) = 1
    /\ fetched # {}

\* ============================================================ the order

\* The granules of the layers written by this run.
WrittenUrlSeq == [k \in 1..Len(Written) |-> Written[k].url]

IsPrefix(s, t) == Len(s) <= Len(t) /\ SubSeq(t, 1, Len(s)) = s

\* The elements of s are elements of lst, in the order they have in lst.
InOrderOf(s, lst) ==
    \A a, b \in 1..Len(s) :
        /\ InSeq(lst, s[a])
        /\ a < b => IndexOf(lst, s[a]) < IndexOf(lst, s[b])

\* C21: the layers of the cube are in arrival order, the order of the list
\* skip_duplicate_granules returned restricted to the accepted granules: the
\* results of a batch are folded into the accumulator in the order of the
\* tasks, whatever the order the workers complete in, and the layers written
\* are never sorted again.
C21_ArrivalOrder ==
    /\ [](/\ InOrderOf(WrittenUrlSeq, keep_urls)
          /\ InOrderOf(urls, keep_urls)
          /\ pc # "error" => InOrderOf(WrittenUrlSeq \o urls, keep_urls)
          /\ \A k \in 1..Len(Written) :
                \E d \in FetchDs(Written[k].url) :
                    preprocess_dataset(d, Written[k].url, projection)[3]
                        = Some(Written[k].mid_date))
    /\ [][(pc = "add_layers" /\ pc' = "add_layers") =>
            /\ idx' = idx + 1
            /\ Accumulator' = add_layer(Accumulator, results[idx])
            /\ results[idx][4] = keep_urls[start + idx]]_vars
    /\ [][RunStep => IsPrefix(store.slices, store'.slices)]_vars

\* A parallel run wrote two layers, the later one first.
C21_Witness ==
    /\ path \in ParallelPaths
    /\ pc = "done"
    /\ Len(Written) = 2
    /\ Written[1].mid_date > Written[2].mid_date
    /\ IndexOf(keep_urls, Written[1].url) < IndexOf(keep_urls, Written[2].url)

\* C22: the mid_date values of the layers written to the store over a whole
\* run are pairwise distinct, be the layers of one batch or of several.
C22_MidDatesDistinct ==
    \A a, b \in 1..Len(Written) :
        a # b => Written[a].mid_date # Written[b].mid_date

\* ============================================================ the workers

\* What read_dataset or read_s3_dataset may return for a granule.
ResultsOf(url) == {preprocess_dataset(d, url, projection) : d \in FetchDs(url)}

\* C23: the fetch workers are stateless: read_dataset, read_s3_dataset and
\* preprocess_dataset modify neither the accumulator (ds, dates, urls, layers)
\* nor the skip lists nor num_urls_from_api; within a run these are modified
\* by add_layer, combine_layers and skip_duplicate_granules only. The result
\* of a task is made of its own granule alone, so the outcome of a batch does
\* not depend on how the workers interleave.
C23_WorkersStateless ==
    /\ [][(pc = "compute" /\ results' # results) =>
            UNCHANGED <<accVars, skipped_double_granules, num_urls_from_api, store>>]_vars
    /\ [][(RunStep /\ accVars' # accVars) => pc \in {"add_layers", "seq_loop"}]_vars
    /\ [][(RunStep /\ <<skipped_double_granules, num_urls_from_api>>'
                        # <<skipped_double_granules, num_urls_from_api>>) =>
            pc \in {"request", "dedup"}]_vars
    /\ [](pc \in {"compute", "add_layers"} =>
            \A k \in 1..Len(results) :
                results[k] # Pending => results[k] \in ResultsOf(keep_urls[start + k]))

\* A worker has returned an empty granule, another has not returned yet: the
\* granule is not counted yet.
C23_Witness ==
    /\ path \in ParallelPaths
    /\ pc = "compute"
    /\ \E k, j \in 1..Len(results) :
          /\ results[j] = Pending
          /\ results[k] # Pending
          /\ results[k][1]
    /\ skipped_empty_granules = <<>>

\* C24: the parallel paths cut the list skip_duplicate_granules returned into
\* batches that follow each other in the order of the list and do not
\* overlap: every batch but the last has exactly NUM_GRANULES_TO_WRITE
\* granules, the last has between 1 and NUM_GRANULES_TO_WRITE, every granule
\* is in exactly one batch, and at the head of every iteration of the loop
\* start + num_to_process is the length of the list.
C24_BatchesPartition ==
    /\ []((path \in ParallelPaths /\ pc \in {"batch_loop", "compute", "add_layers"}) =>
            /\ start + num_to_process = Len(keep_urls)
            /\ start % NUM_GRANULES_TO_WRITE = 0 \/ num_to_process = 0
            /\ fetched \subseteq Range(keep_urls)
            /\ PriorUrls \subseteq fetched)
    /\ []((path \in ParallelPaths /\ pc \in {"compute", "add_layers"}) =>
            /\ num_tasks >= 1
            /\ num_tasks <= NUM_GRANULES_TO_WRITE
            /\ Len(results) = num_tasks
            /\ num_tasks = NUM_GRANULES_TO_WRITE \/ start + num_tasks = Len(keep_urls)
            /\ start + num_tasks <= Len(keep_urls)
            /\ fetched \ PriorUrls \subseteq BatchUrls
            /\ PriorUrls \cap BatchUrls = {})
    /\ []((path \in ParallelPaths /\ pc \in {"stats", "done"}) =>
            /\ start = Len(keep_urls)
            /\ fetched = Range(keep_urls))
    /\ [][(pc = "add_layers" /\ pc' = "batch_loop") =>
            /\ start' = start + num_tasks
            /\ num_to_process' = num_to_process - num_tasks]_vars

\* The last batch of a run is at hand, and it is shorter than the one before.
C24_Witness ==
    /\ path \in ParallelPaths
    /\ pc = "add_layers"
    /\ start = NUM_GRANULES_TO_WRITE
    /\ num_tasks < NUM_GRANULES_TO_WRITE
    /\ start + num_tasks = Len(keep_urls)

\* ============================================================ termination

\* A fetch or a write of the run has failed.
FetchOrWriteFailed == err \in {"fetch error", "ValueError: to_zarr"}

\* C25: under fair scheduling, and with no failure of a fetch or of a write,
\* every run on a list of candidates that is not empty terminates: every
\* candidate kept is fetched, the loop over the batches ends, and the
\* statistics are reported after the last batch is written.
C25_RunTerminates ==
    (pc = "dedup" /\ found_urls # <<>>) ~>
        \/ FetchOrWriteFailed
        \/ /\ pc = "done"
           /\ fetched = Range(keep_urls)

\* ============================================================ the results

HasAttr(d, var_name, attr_name) ==
    var_name \in d.vars /\ attr_name \in DOMAIN d.attrs[var_name]

\* The attributes combine_layers asks for without a default.
RequiredAttrs == {<<"vx", "stable_count">>, <<"vx", "stable_shift">>, <<"vy", "stable_shift">>}

ToZarrStmt == CHOOSE n \in 1..Len(CombineProgram) : CombineProgram[n].op = "to_zarr"

\* C27: get_data_var_attr returns the attribute of a layer when the variable
\* and the attribute exist; when not, it returns the default of the caller if
\* there is one, a default of 0.0 included, and raises if there is none. So
\* combine_layers fails, before any write of the batch to the store, when a
\* layer lacks stable_count or stable_shift of vx or stable_shift of vy.
C27_RequiredAttributes ==
    /\ [][AtStmt("attr") =>
            IF \A k \in 1..Len(ds) :
                  \/ HasAttr(ds[k], ThisStmt.var, ThisStmt.attr)
                  \/ ThisStmt.missing_value # None
            THEN /\ pc' = "combine"
                 /\ idx' = idx + 1
                 /\ \A k \in 1..Len(ds) :
                       layers'[ThisStmt.out][k] =
                          IF HasAttr(ds[k], ThisStmt.var, ThisStmt.attr)
                          THEN ds[k].attrs[ThisStmt.var][ThisStmt.attr][1]
                          ELSE ThisStmt.missing_value[1]
            ELSE /\ pc' = "error"
                 /\ err' = "RuntimeError: attribute"
                 /\ store' = store]_vars
    /\ [](\A n \in 1..Len(CombineProgram) :
            CombineProgram[n].op = "attr" =>
               ((CombineProgram[n].missing_value = None)
                   = (<<CombineProgram[n].var, CombineProgram[n].attr>> \in RequiredAttrs)))
    /\ []((pc = "error" /\ err = "RuntimeError: attribute") =>
            /\ idx < ToZarrStmt
            /\ <<ThisStmt.var, ThisStmt.attr>> \in RequiredAttrs
            /\ \E k \in 1..Len(ds) : ~HasAttr(ds[k], ThisStmt.var, ThisStmt.attr)
            /\ store \in {NoStore, OldStore})
    /\ [][store' # store =>
            /\ AtStmt("to_zarr")
            /\ \A out \in {"stable_count", "vx_stable_shift", "vy_stable_shift"} :
                  /\ out \in DOMAIN layers
                  /\ \A k \in 1..Len(ds) : layers[out][k] = AttrValue]_vars

\* A layer of the batch had no flag_stable_shift, and the default 0.0 stands
\* for it; another has no stable_shift of vy, and combine_layers raised with
\* the store as the batch before left it.
C27_Witness ==
    /\ pc = "error"
    /\ err = "RuntimeError: attribute"
    /\ ThisStmt.var = "vy"
    /\ ThisStmt.attr = "stable_shift"
    /\ \E k \in 1..Len(ds) : layers["flag_stable_shift"][k] = missing_stable_shift_value
    /\ store = OldStore

\* The variables of the layers that combine_layers concatenates one by one.
PerLayerVars ==
    {"v", "vx", "vy", "chip_size_height", "chip_size_width", "interp_mask"}

\* C28: in combine_layers, once the concatenation of a variable of the layers
\* (v, vx, vy, chip_size_height, chip_size_width, interp_mask) is made, the
\* variable is dropped from every layer before the next concatenation starts.
C28_DroppedBeforeNextConcat ==
    /\ []((pc = "combine" /\ idx > 1 /\ idx <= Len(CombineProgram)
           /\ ThisStmt.op \in {"concat", "get_data_var", "to_zarr"}) =>
            \A w \in PerLayerVars :
                w \in DOMAIN layers => \A k \in 1..Len(ds) : w \notin ds[k].vars)
    /\ [][(AtStmt("drop") /\ pc' = "combine") =>
            /\ ThisStmt.var \in DOMAIN layers
            /\ Len(ds') = Len(ds)
            /\ \A k \in 1..Len(ds) : ds'[k].vars = ds[k].vars \ {ThisStmt.var}]_vars
    /\ [][(pc = "combine" /\ pc' = "combine" /\ idx > 1) =>
            \A k \in 1..Len(ds) : ds'[k].vars \subseteq ds[k].vars]_vars

\* vy is about to be concatenated: v and vx are in the cube and in no layer.
C28_Witness ==
    /\ AtStmt("concat")
    /\ ThisStmt.var = "vy"
    /\ Len(ds) = NUM_GRANULES_TO_WRITE
    /\ {"v", "vx"} \subseteq DOMAIN layers
    /\ \A k \in 1..Len(ds) : ds[k].vars \cap {"v", "vx", "vy"} = {"vy"}

\* ============================================================ the skip lists

\* How many times x is in seq.
Count(seq, x) == Cardinality({k \in 1..Len(seq) : seq[k] = x})

\* How many times the granule is counted as skipped, over the three lists.
TimesSkipped(url) ==
    LET keys == DOMAIN skipped_proj_granules
        CountProj[ks \in SUBSET keys] ==
            IF ks = {} THEN 0
            ELSE LET key == CHOOSE key \in ks : TRUE
                 IN  Count(skipped_proj_granules[key], url) + CountProj[ks \ {key}]
    IN  Count(skipped_double_granules, url) + Count(skipped_empty_granules, url)
            + CountProj[keys]

SkippedUrls ==
    Range(skipped_double_granules) \cup Range(skipped_empty_granules)
        \cup CountedWrongProjection

SkipListsDisjoint ==
    /\ Range(skipped_double_granules) \cap Range(skipped_empty_granules) = {}
    /\ Range(skipped_double_granules) \cap CountedWrongProjection = {}
    /\ Range(skipped_empty_granules) \cap CountedWrongProjection = {}
    /\ \A a, b \in DOMAIN skipped_proj_granules :
          a # b => Range(skipped_proj_granules[a]) \cap Range(skipped_proj_granules[b]) = {}

\* C29 as stated: the skip lists are reset at the start of every run: on an
\* object that has completed a run, the three lists hold granules of the new
\* run only; and within a run no granule is in more than one of the lists.
C29_SkipListsDisjoint ==
    pc # "start" =>
        /\ SkippedUrls \subseteq Range(listing)
        /\ SkipListsDisjoint

\* C29: the skip lists are reset at the start of every run: on an object that
\* has completed a run, the three lists hold granules of the new run only.
\* Within a run a granule is in the lists at most as many times as the list
\* of candidates has it: it is in more than one of the lists only when the
\* search has listed it more than once.
C29_SkipListsOfThisRun ==
    pc # "start" =>
        /\ SkippedUrls \subseteq Range(listing)
        /\ \A u \in SkippedUrls : TimesSkipped(u) <= Count(found_urls, u)
        /\ (\A u \in Range(found_urls) : Count(found_urls, u) = 1) => SkipListsDisjoint

\* The second run of the object is over: it has skipped a granule of each
\* kind, and one that the search listed twice is in two of the lists.
C29_Witness ==
    /\ pc = "done"
    /\ skipped_double_granules # <<>>
    /\ skipped_empty_granules # <<>>
    /\ DOMAIN skipped_proj_granules # {}
    /\ Range(skipped_double_granules) \cap Range(skipped_empty_granules) # {}

\* ============================================================ the statistics

\* C30: format_stats reports, for the granules skipped as empty, as of a
\* wrong projection (all projections together) and as older duplicates, the
\* count and the percentage 100 * count / N, where N is the number of
\* candidates handed to skip_duplicate_granules; it changes neither the store
\* nor the skip lists.
C30_StatsReported ==
    [][(pc = "stats" /\ pc' # "stats") =>
        LET N == Len(found_urls)
            empty == Len(skipped_empty_granules)
            wrong == Cardinality({e \in (DOMAIN skipped_proj_granules) \X (1..MaxUrls) :
                                     e[2] <= Len(skipped_proj_granules[e[1]])})
            double == Len(skipped_double_granules)
        IN  /\ pc' = "done"
            /\ stats' # None
            /\ stats'[1].empty = <<empty, <<100 * empty, N>>>>
            /\ stats'[1].wrong_projection = <<wrong, <<100 * wrong, N>>>>
            /\ stats'[1].double = <<double, <<100 * double, N>>>>
            /\ UNCHANGED <<store, skipped_empty_granules, skipped_proj_granules,
                           skipped_double_granules, num_urls_from_api>>]_vars

\* ------------------------------------------------------- the mid-point key

\* C31: two granules of the input have the same mid-point key only if they
\* have the same pair of acquisition dates, and so the "differs in acquisition
\* time" error of skip_duplicate_granules is never raised.
C31_MidDateInjective ==
    /\ \A j, k \in 1..Len(found_urls) :
          UrlMidDate(found_urls[j]) = UrlMidDate(found_urls[k])
              => AcqPair(found_urls[j]) = AcqPair(found_urls[k])
    /\ err # "RuntimeError: duplicate granule"

\* Two granules of different image pairs whose acquisition dates have the same
\* sum (the same half-way day) went through the loop and got two keys.
C31_Witness ==
    /\ pc = "dedup_done"
    /\ Len(found_urls) = 2
    /\ LET d1 == get_dates_from_filename(found_urls[1])
           d2 == get_dates_from_filename(found_urls[2])
       IN  /\ d1.acq_1 + d1.acq_2 = d2.acq_1 + d2.acq_2
           /\ d1.acq_1 # d2.acq_1
    /\ Len(url_mid_dates) = 2
    /\ url_mid_dates[1] # url_mid_dates[2]

\* -------------------------------------------------- the kept and the skipped

\* Both processing dates of a are at least those of b, and one is later.
Dominates(a, b) ==
    LET da == get_dates_from_filename(a)
        db == get_dates_from_filename(b)
    IN  /\ da.proc_1 >= db.proc_1
        /\ da.proc_2 >= db.proc_2
        /\ (da.proc_1 > db.proc_1 \/ da.proc_2 > db.proc_2)

\* One is newer on image 1, the other is newer on image 2.
Incomparable(a, b) ==
    LET da == get_dates_from_filename(a)
        db == get_dates_from_filename(b)
    IN  \/ da.proc_1 > db.proc_1 /\ da.proc_2 < db.proc_2
        \/ da.proc_1 < db.proc_1 /\ da.proc_2 > db.proc_2

NoKeptDominated ==
    \A k \in 1..Len(keep_urls) : \A s \in 1..Len(skipped_double_granules) :
        UrlMidDate(skipped_double_granules[s]) = UrlMidDate(keep_urls[k])
            => ~Dominates(skipped_double_granules[s], keep_urls[k])

\* The iteration that meets a granule incomparable with the one kept for its
\* mid-point leaves the kept list as it is and skips the arriving granule.
IncomparableKeepsEarlier ==
    (/\ pc = "dedup"
     /\ i <= Len(found_urls)
     /\ InSeq(url_mid_dates, UrlMidDate(found_urls[i]))
     /\ Incomparable(found_urls[i],
                     keep_urls[IndexOf(url_mid_dates, UrlMidDate(found_urls[i]))]))
        => /\ keep_urls' = keep_urls
           /\ skipped_double_granules' = Append(skipped_double_granules, found_urls[i])

\* C32: no granule kept by skip_duplicate_granules is dominated by a skipped
\* granule of the same mid-point (both processing dates at least as late, one
\* later), at any moment of the loop and at its end; and of two incomparable
\* candidates the one that arrived first stays kept.
C32_KeptNotDominated == [](NoKeptDominated) /\ [][IncomparableKeepsEarlier]_vars

\* The loop is over for a list of two incomparable granules of one mid-point:
\* the first is kept although the second is newer on image 1.
C32_Witness ==
    /\ pc = "dedup_done"
    /\ Len(found_urls) = 2
    /\ Incomparable(found_urls[1], found_urls[2])
    /\ keep_urls = <<found_urls[1]>>
    /\ skipped_double_granules = <<found_urls[2]>>
    /\ get_dates_from_filename(found_urls[1]).proc_1
           < get_dates_from_filename(found_urls[2]).proc_1

\* ------------------------------------------------------------ the accounting

\* C33: when a run has completed without error, the time-slices written to
\* the store, the granules skipped as empty, those skipped for their
\* projection and those skipped as duplicates add up to num_urls_from_api.
C33_EveryCandidateCounted ==
    pc = "done" =>
        Len(Written) + Len(skipped_empty_granules)
            + SumLens(skipped_proj_granules, DOMAIN skipped_proj_granules)
            + Len(skipped_double_granules)
        = num_urls_from_api[1]

\* A completed run that wrote a granule, skipped a duplicate and rejected one.
C33_Witness ==
    /\ pc = "done"
    /\ num_urls_from_api = Some(MaxUrls)
    /\ Len(Written) >= 1
    /\ Len(skipped_double_granules) >= 1
    /\ Len(skipped_empty_granules)
           + SumLens(skipped_proj_granules, DOMAIN skipped_proj_granules) >= 1

\* ------------------------------------------------- the calls of combine_layers

\* The next step of the main thread calls combine_layers on the accumulator:
\* after the add_layer loop of a batch, or after the sequential loop with
\* layers left over.
CombineCallNext ==
    \/ pc = "add_layers" /\ idx > Len(results)
    \/ pc = "seq_loop" /\ idx > Len(keep_urls) /\ Len(urls) # 0

\* C34: whenever combine_layers is called the accumulator holds at least one
\* layer, on the sequential and on the parallel paths, and so xr.concat never
\* gets an empty list.
C34_CombineNeverEmpty ==
    /\ CombineCallNext => Len(ds) >= 1
    /\ err # "ValueError: concat"

\* ------------------------------------------------------------- the division

\* C36: format_stats never divides by zero: whenever a run reaches it, on an
\* API path or on a local path, num_urls_from_api is greater than 0.
C36_StatsDivisorPositive ==
    /\ pc = "stats" => (num_urls_from_api # None /\ num_urls_from_api[1] > 0)
    /\ err # "ZeroDivisionError"

\* ------------------------------------------------- sequential and parallel

\* The create method of the other kind: parallel for a sequential one,
\* sequential for a parallel one, API for API and local for local.
OtherPath ==
    IF path = "create" THEN "create_parallel"
    ELSE IF path = "create_parallel" THEN "create"
    ELSE IF path = "create_from_local_no_api" THEN "create_from_local_parallel_no_api"
    ELSE "create_from_local_no_api"

SameEnd(st) ==
    /\ store.slices = st.store.slices
    /\ skipped_empty_granules = st.acc.skipped_empty
    /\ skipped_proj_granules = st.acc.skipped_proj

\* C35: for every deduplicated list and every result of the fetch of each of
\* its granules, the store and the skip lists a create method ends its loop
\* with are those the method of the other kind ends with on the same list and
\* results, whatever the library does on an append (the list of duplicates is
\* the same, being made before the loops).
C35_SequentialEqualsParallel ==
    pc = "stats" => \E m \in ToZarrChoices : SameEnd(LoopOf(OtherPath, results, m))

\* --------------------------------------------------- the search API retries

Exited == pc \in {"returned", "raised"}

Gets == Count(calls, "get")

\* C37: the function makes at most total_retries requests; it returns after
\* the first attempt that succeeds, with the data of that attempt, and raises
\* RuntimeError when every attempt has failed (without any request when
\* total_retries <= 0); it sleeps only between two attempts; and the file at
\* local_path does not exist when it exits.
C37_RetryContract ==
    /\ Gets = num_retries
    /\ Gets <= (IF total_retries > 0 THEN total_retries ELSE 0)
    /\ pc = "returned" => (got_granules /\ data = <<num_retries>>)
    /\ pc = "raised" =>
          (~got_granules /\ Gets = (IF total_retries > 0 THEN total_retries ELSE 0))
    /\ Exited =>
          \A k \in 1..Len(calls) :
              calls[k] = "sleep" =>
                  /\ k > 1 /\ calls[k - 1] = "get"
                  /\ k < Len(calls) /\ calls[k + 1] = "get"
    /\ Exited => local_file = None

\* ----------------------------------------------------- the cubes to restore

\* The cubes handed to FixDatacubes.all, group after group.
RECURSIVE Flatten(_)
Flatten(groups) ==
    IF groups = <<>> THEN <<>> ELSE Head(groups) \o Flatten(Tail(groups))

\* C38: when __call__ returns it has processed the cubes of the sorted list
\* from index start_cube to the end, each once and in the order of the list,
\* in groups of at least one and at most num_dask_workers cubes; and no cube
\* when start_cube is at or past the end of the list.
C38_EveryCubeFixed ==
    pc = "fix_done" =>
        /\ Flatten(fixed) = Slice(all_zarr_datacubes, start_cube, Len(all_zarr_datacubes))
        /\ \A g \in 1..Len(fixed) :
              Len(fixed[g]) >= 1 /\ Len(fixed[g]) <= num_dask_workers
        /\ start_cube >= Len(all_zarr_datacubes) => fixed = <<>>

\* ------------------------------------------- the duplicates of the catalog

IsOptical(url) == get_tokens_from_filename(url).is_optical

SameProcessing(a, b) ==
    LET ta == get_tokens_from_filename(a)
        tb == get_tokens_from_filename(b)
    IN  ta.second_date_1 = tb.second_date_1 /\ ta.second_date_2 = tb.second_date_2

\* C39: when skip_duplicate_granules of the catalog tool returns, every input
\* URL is in granules or in skipped_double_granules, as many times as in the
\* input; no radar format granule is skipped; and the kept URLs of one optical
\* granule id have the same processing dates for both images.
C39_CatalogAccounts ==
    pc = "catalog_done" =>
        /\ Len(granules) + Len(skipped_double_granules) = Len(found_urls)
        /\ SeqToBag(granules) (+) SeqToBag(skipped_double_granules) = SeqToBag(found_urls)
        /\ \A k \in 1..Len(skipped_double_granules) : IsOptical(skipped_double_granules[k])
        /\ \A a, b \in 1..Len(granules) :
              (/\ IsOptical(granules[a])
               /\ GranuleId(get_tokens_from_filename(granules[a]))
                     = GranuleId(get_tokens_from_filename(granules[b])))
                  => SameProcessing(granules[a], granules[b])

\* The tool returned two kept URLs of one optical id, of the same processing
\* dates, and skipped an older one of that id.
C39_Witness ==
    /\ pc = "catalog_done"
    /\ Len(found_urls) = 3
    /\ Len(granules) = 2
    /\ granules[1] # granules[2]
    /\ IsOptical(granules[1])
    /\ GranuleId(get_tokens_from_filename(granules[1]))
          = GranuleId(get_tokens_from_filename(granules[2]))
    /\ Len(skipped_double_granules) = 1

====
